---- MODULE Spec2Model ----
(***************************************************************************)
(* Fault-tolerance core of the financial agent: CircuitBreaker,            *)
(* RetryMechanism, FallbackHandler and their composition                   *)
(* (infrastructure/fault_tolerance.py and its use in                       *)
(* infrastructure/yfinance_adapter.py), and the MonitoringService          *)
(* (infrastructure/monitoring.py).                                         *)
(*                                                                         *)
(* Time is a natural number of clock units read by time.time(); an         *)
(* Optional[float] timestamp is None or such a number.                     *)
(***************************************************************************)
EXTENDS Integers, Sequences, FiniteSets, TLC

VARIABLES
    cb,       \* the CircuitBreaker object: config, state, metrics
    now,      \* the value time.time() returns
    last,     \* what the latest operation did, as its caller sees it
    ghost,    \* history counters kept beside the code's own counters
    threads,  \* concurrent callers of the breaker: where each one is in call
    retry,    \* the RetryMechanism and the execute_with_retry call in progress
    fb,       \* the FallbackHandler: config and cache
    mon,      \* the MonitoringService: health map, metrics, registered breakers
    repo      \* the YFinanceStockRepository: its local cache of stocks

vars == <<cb, now, last, ghost, threads, retry, fb, mon, repo>>

\* What the breaker's own operations leave alone, and what a retry over a
\* plain operation leaves alone.
notBreaker == <<retry, fb, mon, repo>>
notRetry == <<cb, last, threads, fb, mon, repo>>
notChain == <<threads, fb, mon, repo>>

----------------------------------------------------------------------------
(* Bounds of the model *)

MaxTime == 3            \* the clock stops advancing here
MaxCalls == 3           \* admitted calls per breaker
MaxThreshold == 2       \* failure_threshold, success_threshold in 1..MaxThreshold
MaxTimeout == 1         \* recovery_timeout in 0..MaxTimeout
MaxOpTime == 1          \* clock units an operation may take
NumThreads == 2         \* concurrent callers of one breaker
MaxAttempts == 5        \* max_attempts in 1..MaxAttempts
MaxInitialDelay == 4    \* initial_delay in 0..MaxInitialDelay
MaxBackoff == 2         \* backoff_factor in 1..MaxBackoff
MaxDelay == 8           \* max_delay in 0..MaxDelay, or the default
MaxTtl == 1             \* cache_ttl in 0..MaxTtl
MaxRequests == 20       \* record_request calls
MaxResponseTime == 2    \* response_time in 0..MaxResponseTime clock units
MaxWatchedCalls == 5    \* admitted calls of the breaker the service watches
MaxServiceRequests == 2 \* requests recorded by the service beside its other operations
MaxCacheDuration == 2   \* cache_duration of a repository in 1..MaxCacheDuration

----------------------------------------------------------------------------
(* Values *)

None == -1

CLOSED == "closed"
OPEN == "open"
HALF_OPEN == "half_open"

CircuitBreakerState == {CLOSED, OPEN, HALF_OPEN}

\* What an operation can do when invoked: return one of two results, or raise
\* one of two errors of its own.
Values == {"v1", "v2"}
Errors == {"ConnectionError", "KeyboardInterrupt"}
CircuitBreakerOpenException == "CircuitBreakerOpenException"

Return(v) == [kind |-> "return", value |-> v]
Raise(e) == [kind |-> "raise", value |-> e]

Outcomes == {Return(v) : v \in Values} \cup {Raise(e) : e \in Errors}

CircuitBreakerConfig ==
    [failure_threshold : 1..MaxThreshold,
     recovery_timeout : 0..MaxTimeout,
     expected_exception : {{"ConnectionError"}, Errors},
     success_threshold : 1..MaxThreshold]

CircuitBreakerMetrics ==
    [total_calls |-> 0,
     successful_calls |-> 0,
     failed_calls |-> 0,
     consecutive_failures |-> 0,
     consecutive_successes |-> 0,
     last_failure_time |-> None,
     last_success_time |-> None]

\* CircuitBreaker.__init__
CircuitBreaker(config) ==
    [config |-> config, state |-> CLOSED, metrics |-> CircuitBreakerMetrics]

----------------------------------------------------------------------------
(* CircuitBreaker *)

\* _should_attempt_reset with > for >=
should_attempt_reset_strict(b, t) ==
    IF b.metrics.last_failure_time = None
    THEN TRUE
    ELSE (t - b.metrics.last_failure_time) > b.config.recovery_timeout

\* _should_attempt_reset, with t the value of time.time()
should_attempt_reset(b, t) ==
    IF b.metrics.last_failure_time = None
    THEN TRUE
    ELSE (t - b.metrics.last_failure_time) >= b.config.recovery_timeout

\* _record_success with > for >=
record_success_strict(b, t) ==
    LET m1 == [b.metrics EXCEPT
                  !.successful_calls = @ + 1,
                  !.consecutive_successes = @ + 1,
                  !.consecutive_failures = 0,
                  !.last_success_time = t]
    IN  IF b.state = HALF_OPEN
           /\ m1.consecutive_successes > b.config.success_threshold
        THEN [b EXCEPT !.state = CLOSED,
                       !.metrics = [m1 EXCEPT !.consecutive_successes = 0]]
        ELSE [b EXCEPT !.metrics = m1]

\* _record_success without the reset of consecutive_failures
record_success_keep_failures(b, t) ==
    LET m1 == [b.metrics EXCEPT
                  !.successful_calls = @ + 1,
                  !.consecutive_successes = @ + 1,
                  !.last_success_time = t]
    IN  IF b.state = HALF_OPEN
           /\ m1.consecutive_successes >= b.config.success_threshold
        THEN [b EXCEPT !.state = CLOSED,
                       !.metrics = [m1 EXCEPT !.consecutive_successes = 0]]
        ELSE [b EXCEPT !.metrics = m1]

\* _record_success, with t the value of time.time()
record_success(b, t) ==
    LET m1 == [b.metrics EXCEPT
                  !.successful_calls = @ + 1,
                  !.consecutive_successes = @ + 1,
                  !.consecutive_failures = 0,
                  !.last_success_time = t]
    IN  IF b.state = HALF_OPEN
           /\ m1.consecutive_successes >= b.config.success_threshold
        THEN [b EXCEPT !.state = CLOSED,
                       !.metrics = [m1 EXCEPT !.consecutive_successes = 0]]
        ELSE [b EXCEPT !.metrics = m1]

\* _record_failure with > for >=
record_failure_strict(b, t) ==
    LET m1 == [b.metrics EXCEPT
                  !.failed_calls = @ + 1,
                  !.consecutive_failures = @ + 1,
                  !.consecutive_successes = 0,
                  !.last_failure_time = t]
    IN  IF b.state = HALF_OPEN
        THEN [b EXCEPT !.state = OPEN, !.metrics = m1]
        ELSE IF b.state = CLOSED
                /\ m1.consecutive_failures > b.config.failure_threshold
        THEN [b EXCEPT !.state = OPEN, !.metrics = m1]
        ELSE [b EXCEPT !.metrics = m1]

\* _record_failure without the HALF_OPEN branch
record_failure_closed_only(b, t) ==
    LET m1 == [b.metrics EXCEPT
                  !.failed_calls = @ + 1,
                  !.consecutive_failures = @ + 1,
                  !.consecutive_successes = 0,
                  !.last_failure_time = t]
    IN  IF b.state = CLOSED
           /\ m1.consecutive_failures >= b.config.failure_threshold
        THEN [b EXCEPT !.state = OPEN, !.metrics = m1]
        ELSE [b EXCEPT !.metrics = m1]

\* _record_failure without the reset of consecutive_successes
record_failure_keep_successes(b, t) ==
    LET m1 == [b.metrics EXCEPT
                  !.failed_calls = @ + 1,
                  !.consecutive_failures = @ + 1,
                  !.last_failure_time = t]
    IN  IF b.state = HALF_OPEN
        THEN [b EXCEPT !.state = OPEN, !.metrics = m1]
        ELSE IF b.state = CLOSED
                /\ m1.consecutive_failures >= b.config.failure_threshold
        THEN [b EXCEPT !.state = OPEN, !.metrics = m1]
        ELSE [b EXCEPT !.metrics = m1]

\* _record_failure, with t the value of time.time()
record_failure(b, t) ==
    LET m1 == [b.metrics EXCEPT
                  !.failed_calls = @ + 1,
                  !.consecutive_failures = @ + 1,
                  !.consecutive_successes = 0,
                  !.last_failure_time = t]
    IN  IF b.state = HALF_OPEN
        THEN [b EXCEPT !.state = OPEN, !.metrics = m1]
        ELSE IF b.state = CLOSED
                /\ m1.consecutive_failures >= b.config.failure_threshold
        THEN [b EXCEPT !.state = OPEN, !.metrics = m1]
        ELSE [b EXCEPT !.metrics = m1]

\* call's first statement testing the state only after the reset attempt:
\* an OPEN breaker whose timeout has not elapsed is let through
gate_no_reject(b, t) ==
    IF b.state = OPEN /\ should_attempt_reset(b, t)
    THEN [admit |-> TRUE, cb |-> [b EXCEPT !.state = HALF_OPEN]]
    ELSE [admit |-> TRUE, cb |-> b]

\* call's first statement closing the breaker once the timeout has elapsed
gate_reset_closes(b, t) ==
    IF b.state = OPEN
    THEN IF should_attempt_reset(b, t)
         THEN [admit |-> TRUE, cb |-> [b EXCEPT !.state = CLOSED]]
         ELSE [admit |-> FALSE, cb |-> b]
    ELSE [admit |-> TRUE, cb |-> b]

\* call's first statement rejecting whenever the breaker is OPEN
gate_always_rejects(b, t) ==
    IF b.state = OPEN
    THEN [admit |-> FALSE, cb |-> b]
    ELSE [admit |-> TRUE, cb |-> b]

\* The first statement of call: an OPEN breaker either moves to HALF_OPEN or
\* rejects.  admit is FALSE when CircuitBreakerOpenException is raised.
gate(b, t) ==
    IF b.state = OPEN
    THEN IF should_attempt_reset(b, t)
         THEN [admit |-> TRUE, cb |-> [b EXCEPT !.state = HALF_OPEN]]
         ELSE [admit |-> FALSE, cb |-> b]
    ELSE [admit |-> TRUE, cb |-> b]

\* call's try block raising a new error in place of the one caught
guarded_wrapping(b, o, t1) ==
    LET b1 == [b EXCEPT !.metrics.total_calls = @ + 1]
    IN  IF o.kind = "return"
        THEN [cb |-> record_success(b1, t1), result |-> o]
        ELSE IF o.value \in b.config.expected_exception
        THEN [cb |-> record_failure(b1, t1),
              result |-> Raise("CircuitBreakerError")]
        ELSE [cb |-> b1, result |-> o]

\* call's try block recording every error as a failure
guarded_counting_all(b, o, t1) ==
    LET b1 == [b EXCEPT !.metrics.total_calls = @ + 1]
    IN  IF o.kind = "return"
        THEN [cb |-> record_success(b1, t1), result |-> o]
        ELSE [cb |-> record_failure(b1, t1), result |-> Raise(o.value)]

\* The try block of call on an admitted call: total_calls += 1, then func
\* has outcome o and ends at time t1.
guarded(b, o, t1) ==
    LET b1 == [b EXCEPT !.metrics.total_calls = @ + 1]
    IN  IF o.kind = "return"
        THEN [cb |-> record_success(b1, t1), result |-> o]
        ELSE IF o.value \in b.config.expected_exception
        THEN [cb |-> record_failure(b1, t1), result |-> Raise(o.value)]
        ELSE [cb |-> b1, result |-> o]

\* call recording a rejection as a failure at the time of the call
call_rejection_recorded(b, t0, o, t1) ==
    LET g == gate(b, t0)
    IN  IF g.admit
        THEN LET r == guarded(g.cb, o, t1)
             IN  [cb |-> r.cb, result |-> r.result, invoked |-> 1]
        ELSE [cb |-> record_failure(g.cb, t0),
              result |-> Raise(CircuitBreakerOpenException), invoked |-> 0]

\* CircuitBreaker.call(func): entered at time t0; func, if invoked, has
\* outcome o and ends at time t1.  invoked counts the invocations of func.
call(b, t0, o, t1) ==
    LET g == gate(b, t0)
    IN  IF g.admit
        THEN LET r == guarded(g.cb, o, t1)
             IN  [cb |-> r.cb, result |-> r.result, invoked |-> 1]
        ELSE [cb |-> g.cb, result |-> Raise(CircuitBreakerOpenException),
              invoked |-> 0]

----------------------------------------------------------------------------
(* RetryMechanism *)

DefaultMaxDelay == 60

NoException == "None"
Pending == [kind |-> "pending", value |-> "None"]

\* retry_on: a tuple of exception classes, here the set of errors it catches:
\* one class of the operation's errors, Exception (the default, which holds
\* CircuitBreakerOpenException) or BaseException.
RetryOnChoices ==
    {{"ConnectionError"},
     {"ConnectionError", CircuitBreakerOpenException},
     Errors \cup {CircuitBreakerOpenException}}

\* Delays are whole clock units; with jitter the delays are multiples of 4,
\* so that a quarter of a delay is a whole number too.
RetryConfig ==
    {c \in [max_attempts : 1..MaxAttempts,
            initial_delay : 0..MaxInitialDelay,
            backoff_factor : 1..MaxBackoff,
            max_delay : (0..MaxDelay) \cup {DefaultMaxDelay},
            jitter : BOOLEAN,
            retry_on : RetryOnChoices] :
        c.jitter => (c.initial_delay % 4 = 0 /\ c.max_delay % 4 = 0)}

\* What random.uniform(-jitter_range, jitter_range) draws, as a multiple of
\* jitter_range: either end of the interval, or its middle.
Uniform == {-1, 0, 1}

RECURSIVE Pow(_, _)
Pow(b, n) == IF n = 0 THEN 1 ELSE b * Pow(b, n - 1)

Min(a, b) == IF a <= b THEN a ELSE b
Max(a, b) == IF a >= b THEN a ELSE b

\* _calculate_delay with the exponent of the attempt after this one
calculate_delay_next(c, attempt, u) ==
    LET d0 == c.initial_delay * Pow(c.backoff_factor, attempt + 1)
        d1 == Min(d0, c.max_delay)
        jitter_range == d1 \div 4
        d2 == IF c.jitter THEN d1 + jitter_range * u ELSE d1
    IN  Max(0, d2)

\* _calculate_delay with a jitter of half the delay
calculate_delay_half(c, attempt, u) ==
    LET d0 == c.initial_delay * Pow(c.backoff_factor, attempt)
        d1 == Min(d0, c.max_delay)
        jitter_range == d1 \div 2
        d2 == IF c.jitter THEN d1 + jitter_range * u ELSE d1
    IN  Max(0, d2)

\* _calculate_delay(attempt), with u the draw of random.uniform
calculate_delay(c, attempt, u) ==
    LET d0 == c.initial_delay * Pow(c.backoff_factor, attempt)
        d1 == Min(d0, c.max_delay)
        jitter_range == d1 \div 4
        d2 == IF c.jitter THEN d1 + jitter_range * u ELSE d1
    IN  Max(0, d2)

\* RetryMechanism.__init__, and no execute_with_retry in progress
RetryMechanism(config) ==
    [config |-> config, pc |-> "idle", attempt |-> 0,
     last_exception |-> NoException, delay |-> 0, result |-> Pending]

\* execute_with_retry up to the loop: last_exception = None, attempt = 0
enter_retry(r) ==
    [r EXCEPT !.pc = "loop", !.attempt = 0, !.last_exception = NoException,
              !.delay = 0, !.result = Pending]

\* The end of an iteration that caught a retryable error: the for loop goes
\* on to the next attempt, or is exhausted and line 174 raises
\* last_exception.
next_attempt(r) ==
    IF r.attempt + 1 < r.config.max_attempts
    THEN [r EXCEPT !.attempt = @ + 1]
    ELSE [r EXCEPT !.attempt = @ + 1, !.pc = "done",
                   !.result = Raise(r.last_exception)]

\* The loop body keeping the first error caught, not the latest
iterate_first(r, o, u) ==
    IF o.kind = "return"
    THEN [r EXCEPT !.pc = "done", !.result = o, !.delay = None]
    ELSE IF o.value \in r.config.retry_on
    THEN next_attempt(
           [r EXCEPT !.last_exception =
                        IF @ = NoException THEN o.value ELSE @,
                     !.delay = IF r.attempt < r.config.max_attempts - 1
                               THEN calculate_delay(r.config, r.attempt, u)
                               ELSE None])
    ELSE [r EXCEPT !.pc = "done", !.result = o, !.delay = None]

\* The loop body sleeping after the last attempt too
iterate_sleep_always(r, o, u) ==
    IF o.kind = "return"
    THEN [r EXCEPT !.pc = "done", !.result = o, !.delay = None]
    ELSE IF o.value \in r.config.retry_on
    THEN next_attempt(
           [r EXCEPT !.last_exception = o.value,
                     !.delay = calculate_delay(r.config, r.attempt, u)])
    ELSE [r EXCEPT !.pc = "done", !.result = o, !.delay = None]

\* The loop body catching every error, whatever retry_on is
iterate_retry_all(r, o, u) ==
    IF o.kind = "return"
    THEN [r EXCEPT !.pc = "done", !.result = o, !.delay = None]
    ELSE next_attempt(
           [r EXCEPT !.last_exception = o.value,
                     !.delay = IF r.attempt < r.config.max_attempts - 1
                               THEN calculate_delay(r.config, r.attempt, u)
                               ELSE None])

\* The loop body going round again after the last attempt
iterate_unbounded(r, o, u) ==
    IF o.kind = "return"
    THEN [r EXCEPT !.pc = "done", !.result = o, !.delay = None]
    ELSE IF o.value \in r.config.retry_on
    THEN [r EXCEPT !.last_exception = o.value,
                   !.delay = calculate_delay(r.config, 0, u)]
    ELSE [r EXCEPT !.pc = "done", !.result = o, !.delay = None]

\* The loop body letting the breaker's rejection through as a final error
iterate_rejection_final(r, o, u) ==
    IF o.kind = "return"
    THEN [r EXCEPT !.pc = "done", !.result = o, !.delay = None]
    ELSE IF o.value \in r.config.retry_on \ {CircuitBreakerOpenException}
    THEN next_attempt(
           [r EXCEPT !.last_exception = o.value,
                     !.delay = IF r.attempt < r.config.max_attempts - 1
                               THEN calculate_delay(r.config, r.attempt, u)
                               ELSE None])
    ELSE [r EXCEPT !.pc = "done", !.result = o, !.delay = None]

\* One iteration of the loop of execute_with_retry, in which func did o
\* (returned or raised): return func's result; or catch a retryable error,
\* sleep unless this was the last attempt, and go round again; or let any
\* other error through.  delay is what time.sleep was given in this
\* iteration, None if it was not called.
iterate(r, o, u) ==
    IF o.kind = "return"
    THEN [r EXCEPT !.pc = "done", !.result = o, !.delay = None]
    ELSE IF o.value \in r.config.retry_on
    THEN next_attempt(
           [r EXCEPT !.last_exception = o.value,
                     !.delay = IF r.attempt < r.config.max_attempts - 1
                               THEN calculate_delay(r.config, r.attempt, u)
                               ELSE None])
    ELSE [r EXCEPT !.pc = "done", !.result = o, !.delay = None]

\* The time an iteration of the loop spends in time.sleep.
Slept(r) == IF r.delay = None THEN 0 ELSE r.delay

----------------------------------------------------------------------------
(* resilient_api_call *)

\* The loop of execute_with_retry run to its end at time t: the invocations
\* of func have the outcomes os in order, n of them were made so far.
RECURSIVE retry_loop(_, _, _, _)
retry_loop(r, os, t, n) ==
    IF r.pc # "loop" \/ os = <<>>
    THEN [retry |-> r, t |-> t, invocations |-> n]
    ELSE LET r1 == iterate(r, Head(os), 0)
         IN  retry_loop(r1, Tail(os), t + Slept(r1), n + 1)

\* retried_func(): RetryMechanism.__call__'s wrapper, execute_with_retry(func)
\* entered at time t
execute_with_retry(r, os, t) == retry_loop(enter_retry(r), os, t, 0)

\* The loop of execute_with_retry over the breaker's call of func
RECURSIVE chain_loop(_, _, _, _, _, _)
chain_loop(b, r, os, t, n, k) ==
    IF r.pc # "loop" \/ os = <<>>
    THEN [cb |-> b, retry |-> r, result |-> r.result, t1 |-> t,
          invocations |-> n, calls |-> k]
    ELSE LET a == call(b, t, Head(os), t)
             r1 == iterate(r, a.result, 0)
         IN  chain_loop(a.cb, r1, Tail(os), t + Slept(r1), n + a.invoked, k + 1)

\* The decorator applying the breaker first, then retry: retry(cb(func))
resilient_api_call_breaker_first(b, r, t0, os) ==
    chain_loop(b, enter_retry(r), os, t0, 0, 0)

\* protected_func(), entered at time t0: the wrapper of CircuitBreaker.__call__
\* over retried_func, the wrapper of RetryMechanism.__call__ over func.
\* invocations counts the invocations of func, calls those of
\* CircuitBreaker.call; t1 is the time at which protected_func ends.
resilient_api_call(b, r, t0, os) ==
    LET x == execute_with_retry(r, os, t0)
        c == call(b, t0, x.retry.result, x.t)
    IN  IF c.invoked = 1
        THEN [cb |-> c.cb, retry |-> x.retry, result |-> c.result,
              t1 |-> x.t, invocations |-> x.invocations, calls |-> 1]
        ELSE [cb |-> c.cb, retry |-> r, result |-> c.result,
              t1 |-> t0, invocations |-> 0, calls |-> 1]

----------------------------------------------------------------------------
(* FallbackHandler *)

\* What a primary or a fallback function can return: the results of Values,
\* and results that are false where Python tests them (`if cached:`), such
\* as the empty list _fallback_recommendations returns and the None
\* _fetch_stock_data returns for an unknown symbol.
EmptyList == "[]"
NoneValue == "None"
Results == Values \cup {EmptyList, NoneValue}

\* bool(v) for a result v
Truthy(v) == v \notin {EmptyList, NoneValue}

\* The errors `except Exception` catches: KeyboardInterrupt derives from
\* BaseException only, CircuitBreakerOpenException from Exception.
Exception == {"ConnectionError", CircuitBreakerOpenException}

PrimaryOutcomes ==
    {Return(v) : v \in Results}
        \cup {Raise(e) : e \in Errors \cup {CircuitBreakerOpenException}}

FallbackOutcomes == {Return(v) : v \in Results} \cup {Raise(e) : e \in Errors}

\* cache_key: None (the default) or a non-empty string such as the
\* f"stock_{symbol.normalized}" of the adapter.
NoKey == "no cache_key"
Keys == {"k1", "k2"}

FallbackConfig == [enabled : BOOLEAN, cache_ttl : 0..MaxTtl]

\* A key that is not in self.cache.
Absent == [data |-> NoneValue, timestamp |-> None]

\* FallbackHandler.__init__
FallbackHandler(config) == [config |-> config, cache |-> [k \in Keys |-> Absent]]

\* The test of the wrapper without the handler's configuration
caching_key_only(h, key) == key # NoKey

\* `if cache_key and self.config.enabled`
caching(h, key) == key # NoKey /\ h.config.enabled

\* _cache_result that keeps the timestamp of the entry it replaces
cache_result_keep_time(h, key, result, t) ==
    [h EXCEPT !.cache[key] =
        [data |-> result,
         timestamp |-> IF @ = Absent THEN t ELSE @.timestamp]]

\* _cache_result, with t the value of time.time()
cache_result(h, key, result, t) ==
    [h EXCEPT !.cache[key] = [data |-> result, timestamp |-> t]]

\* _get_cached_result without the expiry test
get_cached_result_forever(h, key, t) ==
    IF h.cache[key] = Absent
    THEN [fb |-> h, value |-> NoneValue]
    ELSE [fb |-> h, value |-> h.cache[key].data]

\* _get_cached_result with >= for >
get_cached_result_strict(h, key, t) ==
    IF h.cache[key] = Absent
    THEN [fb |-> h, value |-> NoneValue]
    ELSE IF (t - h.cache[key].timestamp) >= h.config.cache_ttl
    THEN [fb |-> [h EXCEPT !.cache[key] = Absent], value |-> NoneValue]
    ELSE [fb |-> h, value |-> h.cache[key].data]

\* _get_cached_result, with t the value of time.time(): the handler after
\* the lazy eviction, and the value returned.
get_cached_result(h, key, t) ==
    IF h.cache[key] = Absent
    THEN [fb |-> h, value |-> NoneValue]
    ELSE IF (t - h.cache[key].timestamp) > h.config.cache_ttl
    THEN [fb |-> [h EXCEPT !.cache[key] = Absent], value |-> NoneValue]
    ELSE [fb |-> h, value |-> h.cache[key].data]

\* wrapper, lines 207-211: the primary returned p.value at time t1.
on_success(h, key, p, t1) ==
    [fb |-> IF caching(h, key) THEN cache_result(h, key, p.value, t1) ELSE h,
     result |-> p, fallbacks |-> 0, from |-> "primary"]

\* wrapper, lines 222-231, raising the primary's error when the fallback fails
on_fallback_primary_error(h, key, p, f, t2) ==
    IF f.kind = "return"
    THEN [fb |-> IF caching(h, key) THEN cache_result(h, key, f.value, t2) ELSE h,
          result |-> f, fallbacks |-> 1, from |-> "fallback"]
    ELSE [fb |-> h, result |-> p, fallbacks |-> 1, from |-> "fallback"]

\* wrapper, lines 222-231: the fallback function is invoked after the primary
\* raised p.value, and has outcome f at time t2.
on_fallback(h, key, p, f, t2) ==
    IF f.kind = "return"
    THEN [fb |-> IF caching(h, key) THEN cache_result(h, key, f.value, t2) ELSE h,
          result |-> f, fallbacks |-> 1, from |-> "fallback"]
    ELSE [fb |-> h, result |-> f, fallbacks |-> 1, from |-> "fallback"]

\* wrapper, lines 212-220, catching ConnectionError where it catches Exception
on_failure_narrow(h, key, p, t1) ==
    IF p.value # "ConnectionError"
    THEN [fb |-> h, result |-> p, fallbacks |-> 0, from |-> "uncaught"]
    ELSE IF caching(h, key)
    THEN LET c == get_cached_result(h, key, t1)
         IN  IF Truthy(c.value)
             THEN [fb |-> c.fb, result |-> Return(c.value), fallbacks |-> 0,
                   from |-> "cache"]
             ELSE [fb |-> c.fb, result |-> Pending, fallbacks |-> 0,
                   from |-> "miss"]
    ELSE [fb |-> h, result |-> Pending, fallbacks |-> 0, from |-> "miss"]

\* wrapper, lines 212-220: the primary raised p.value at time t1.  An error
\* that is no Exception passes through; otherwise the cache is looked up and
\* its value returned if `if cached:` holds (from is "cache"), and the
\* fallback comes next if not (from is "miss").
on_failure(h, key, p, t1) ==
    IF p.value \notin Exception
    THEN [fb |-> h, result |-> p, fallbacks |-> 0, from |-> "uncaught"]
    ELSE IF caching(h, key)
    THEN LET c == get_cached_result(h, key, t1)
         IN  IF Truthy(c.value)
             THEN [fb |-> c.fb, result |-> Return(c.value), fallbacks |-> 0,
                   from |-> "cache"]
             ELSE [fb |-> c.fb, result |-> Pending, fallbacks |-> 0,
                   from |-> "miss"]
    ELSE [fb |-> h, result |-> Pending, fallbacks |-> 0, from |-> "miss"]

\* wrapper(), lines 205-231, as one step at time t: the primary has outcome
\* p and the fallback function, if it is invoked, outcome f.
wrapper(h, key, p, f, t) ==
    IF p.kind = "return"
    THEN on_success(h, key, p, t)
    ELSE LET w == on_failure(h, key, p, t)
         IN  IF w.from = "miss" THEN on_fallback(w.fb, key, p, f, t) ELSE w

\* No fallback handler in use.
NoFallback == FallbackHandler([enabled |-> TRUE, cache_ttl |-> 0])

----------------------------------------------------------------------------
(* MonitoringService *)

\* The breaker the service watches, by the name the adapter gives it, and
\* the component key check_circuit_breaker_health files it under.
BreakerName == "yfinance_stock_api"
component_of(name) == "circuit_breaker_" \o name

\* The components that report their own health (services.py, bootstrap.py).
ServiceComponents == {"query_processing_service"}
Components == {component_of(BreakerName)} \cup ServiceComponents
Statuses == {"healthy", "degraded", "unhealthy"}

\* A float that is a quotient of two counts: the fraction num/den in lowest
\* terms.  Response times are whole clock units.
RECURSIVE GCD(_, _)
GCD(a, b) == IF b = 0 THEN a ELSE GCD(b, a % b)

Rat(n, d) == LET g == GCD(n, d) IN [num |-> n \div g, den |-> d \div g]

\* x < y for fractions
Less(x, y) == x.num * y.den < y.num * x.den

SystemMetrics ==
    [total_requests |-> 0,
     successful_requests |-> 0,
     failed_requests |-> 0,
     average_response_time |-> Rat(0, 1)]

\* MonitoringService.__init__: health_checks is a dict, kept as the sequence of
\* its items in insertion order; circuit_breakers lists the registered
\* breakers by name.
MonitoringService ==
    [health_checks |-> <<>>,
     system_metrics |-> SystemMetrics,
     circuit_breakers |-> <<>>]

register_circuit_breaker(m, name) ==
    [m EXCEPT !.circuit_breakers = Append(@, name)]

\* record_request with the mean of the old average and the new time
record_request_decayed(m, success, response_time) ==
    LET sm == m.system_metrics
        n == sm.total_requests + 1
        a == sm.average_response_time
    IN  [m EXCEPT !.system_metrics =
            [total_requests |-> n,
             successful_requests |->
                 IF success THEN sm.successful_requests + 1
                 ELSE sm.successful_requests,
             failed_requests |->
                 IF success THEN sm.failed_requests ELSE sm.failed_requests + 1,
             average_response_time |->
                 IF n = 1 THEN Rat(response_time, 1)
                 ELSE Rat(a.num + response_time * a.den, a.den * 2)]]

\* record_request without the count of the failed requests
record_request_successes_only(m, success, response_time) ==
    LET sm == m.system_metrics
        n == sm.total_requests + 1
        a == sm.average_response_time
    IN  [m EXCEPT !.system_metrics =
            [total_requests |-> n,
             successful_requests |->
                 IF success THEN sm.successful_requests + 1
                 ELSE sm.successful_requests,
             failed_requests |-> sm.failed_requests,
             average_response_time |->
                 IF n = 1 THEN Rat(response_time, 1)
                 ELSE Rat(a.num * (n - 1) + response_time * a.den, a.den * n)]]

\* record_request
record_request(m, success, response_time) ==
    LET sm == m.system_metrics
        n == sm.total_requests + 1
        a == sm.average_response_time
    IN  [m EXCEPT !.system_metrics =
            [total_requests |-> n,
             successful_requests |->
                 IF success THEN sm.successful_requests + 1
                 ELSE sm.successful_requests,
             failed_requests |->
                 IF success THEN sm.failed_requests ELSE sm.failed_requests + 1,
             average_response_time |->
                 IF n = 1 THEN Rat(response_time, 1)
                 ELSE Rat(a.num * (n - 1) + response_time * a.den, a.den * n)]]

\* The index of component's item in the dict, 0 if it has none.
index_of(hc, component) ==
    IF \E i \in 1..Len(hc) : hc[i].component = component
    THEN CHOOSE i \in 1..Len(hc) : hc[i].component = component
    ELSE 0

\* update_health_status: self.health_checks[component] = HealthStatus(...)
update_health_status(m, component, status) ==
    LET hc == m.health_checks
        i == index_of(hc, component)
        h == [component |-> component, status |-> status]
    IN  [m EXCEPT !.health_checks =
            IF i = 0 THEN Append(hc, h) ELSE [hc EXCEPT ![i] = h]]

\* get_system_health with the two tests in the other order
overall_status_degraded_first(m) ==
    LET component_statuses ==
            {m.health_checks[i].status : i \in 1..Len(m.health_checks)}
    IN  IF "degraded" \in component_statuses THEN "degraded"
        ELSE IF "unhealthy" \in component_statuses THEN "unhealthy"
        ELSE "healthy"

\* get_system_health, lines 83-91: the "status" of the mapping it returns
overall_status(m) ==
    LET component_statuses ==
            {m.health_checks[i].status : i \in 1..Len(m.health_checks)}
    IN  IF "unhealthy" \in component_statuses THEN "unhealthy"
        ELSE IF "degraded" \in component_statuses THEN "degraded"
        ELSE "healthy"

\* get_metrics with the rate of the failed calls
get_metrics_failure_rate(b) ==
    [state |-> b.state,
     total_calls |-> b.metrics.total_calls,
     successful_calls |-> b.metrics.successful_calls,
     failed_calls |-> b.metrics.failed_calls,
     success_rate |->
         Rat(b.metrics.failed_calls, Max(1, b.metrics.total_calls)),
     consecutive_failures |-> b.metrics.consecutive_failures,
     last_failure_time |-> b.metrics.last_failure_time,
     last_success_time |-> b.metrics.last_success_time]

\* CircuitBreaker.get_metrics: the dict it returns, less the name, which the
\* breaker keeps from its construction on.
get_metrics(b) ==
    [state |-> b.state,
     total_calls |-> b.metrics.total_calls,
     successful_calls |-> b.metrics.successful_calls,
     failed_calls |-> b.metrics.failed_calls,
     success_rate |->
         Rat(b.metrics.successful_calls, Max(1, b.metrics.total_calls)),
     consecutive_failures |-> b.metrics.consecutive_failures,
     last_failure_time |-> b.metrics.last_failure_time,
     last_success_time |-> b.metrics.last_success_time]

\* get_system_health reporting an OPEN breaker as unhealthy by itself
get_system_health_live(m, b) ==
    [status |-> IF b.state = OPEN /\ Len(m.circuit_breakers) > 0
                THEN "unhealthy" ELSE overall_status(m),
     components |-> m.health_checks,
     system_metrics |->
         [total_requests |-> m.system_metrics.total_requests,
          successful_requests |-> m.system_metrics.successful_requests,
          failed_requests |-> m.system_metrics.failed_requests,
          success_rate |->
              Rat(m.system_metrics.successful_requests,
                  Max(1, m.system_metrics.total_requests)),
          average_response_time |-> m.system_metrics.average_response_time],
     circuit_breakers |->
         [i \in 1..Len(m.circuit_breakers) |-> get_metrics(b)]]

\* get_system_health
get_system_health(m, b) ==
    [status |-> overall_status(m),
     components |-> m.health_checks,
     system_metrics |->
         [total_requests |-> m.system_metrics.total_requests,
          successful_requests |-> m.system_metrics.successful_requests,
          failed_requests |-> m.system_metrics.failed_requests,
          success_rate |->
              Rat(m.system_metrics.successful_requests,
                  Max(1, m.system_metrics.total_requests)),
          average_response_time |-> m.system_metrics.average_response_time],
     circuit_breakers |->
         [i \in 1..Len(m.circuit_breakers) |-> get_metrics(b)]]

\* check_circuit_breaker_health, lines 132-146, with <= for <
breaker_status_inclusive(b) ==
    IF b.state = OPEN THEN "unhealthy"
    ELSE IF b.state = HALF_OPEN THEN "degraded"
    ELSE IF ~Less(Rat(8, 10), get_metrics(b).success_rate) THEN "degraded"
    ELSE "healthy"

\* check_circuit_breaker_health, lines 132-146, taking a breaker without calls
\* for healthy
breaker_status_idle_healthy(b) ==
    IF b.state = OPEN THEN "unhealthy"
    ELSE IF b.state = HALF_OPEN THEN "degraded"
    ELSE IF b.metrics.total_calls = 0 THEN "healthy"
    ELSE IF Less(get_metrics(b).success_rate, Rat(8, 10)) THEN "degraded"
    ELSE "healthy"

\* check_circuit_breaker_health, lines 132-146: the status derived for
\* breaker b
breaker_status(b) ==
    IF b.state = OPEN THEN "unhealthy"
    ELSE IF b.state = HALF_OPEN THEN "degraded"
    ELSE IF Less(get_metrics(b).success_rate, Rat(8, 10)) THEN "degraded"
    ELSE "healthy"

\* check_circuit_breaker_health: the loop from the i-th registered breaker
\* on; b is the breaker object every registered name refers to.
RECURSIVE check_from(_, _, _)
check_from(m, b, i) ==
    IF i > Len(m.circuit_breakers) THEN m
    ELSE check_from(
             update_health_status(m, component_of(m.circuit_breakers[i]),
                                  breaker_status(b)),
             b, i + 1)

check_circuit_breaker_health(m, b) == check_from(m, b, 1)

Alert(level, component) == [level |-> level, component |-> component]

\* get_alerts, lines 160-174: the alerts of the health map
health_alerts(m) ==
    LET shown == SelectSeq(m.health_checks,
                           LAMBDA h : h.status \in {"unhealthy", "degraded"})
    IN  [i \in 1..Len(shown) |->
            Alert(IF shown[i].status = "unhealthy" THEN "critical" ELSE "warning",
                  shown[i].component)]

\* get_alerts, lines 177-191: the alerts of the registered breakers
breaker_alerts(m, b) ==
    IF b.state = OPEN
    THEN [i \in 1..Len(m.circuit_breakers) |->
             Alert("critical", component_of(m.circuit_breakers[i]))]
    ELSE IF b.state = HALF_OPEN
    THEN [i \in 1..Len(m.circuit_breakers) |->
             Alert("warning", component_of(m.circuit_breakers[i]))]
    ELSE <<>>

\* get_alerts, lines 194-204, with >= for >
system_alerts_from_ten(m) ==
    LET success_rate == Rat(m.system_metrics.successful_requests,
                            Max(1, m.system_metrics.total_requests))
    IN  IF Less(success_rate, Rat(9, 10)) /\ m.system_metrics.total_requests >= 10
        THEN <<Alert("warning", "system")>>
        ELSE <<>>

\* get_alerts, lines 194-204: the low success rate warning
system_alerts(m) ==
    LET success_rate == Rat(m.system_metrics.successful_requests,
                            Max(1, m.system_metrics.total_requests))
    IN  IF Less(success_rate, Rat(9, 10)) /\ m.system_metrics.total_requests > 10
        THEN <<Alert("warning", "system")>>
        ELSE <<>>

\* get_alerts
get_alerts(m, b) == health_alerts(m) \o breaker_alerts(m, b) \o system_alerts(m)

\* No monitoring in use.
NoMonitor == MonitoringService

----------------------------------------------------------------------------
(* YFinanceStockRepository *)

Symbols == {"AAPL", "MSFT"}

\* The function object with_fallback returns: the wrapper, not yet invoked.
WrapperFunction == "<function wrapper>"

\* A symbol that is not in self._cache.
NoEntry == [stock |-> NoneValue, timestamp |-> None]

\* YFinanceStockRepository.__init__: the local cache; the breaker, the retry
\* mechanism and the fallback handler it creates are cb, retry and fb.
YFinanceStockRepository(cache_duration) ==
    [cache_duration |-> cache_duration, cache |-> [s \in Symbols |-> NoEntry]]

\* _get_cached_stock, with t the value of datetime.now(): the repository
\* after the removal of an expired entry, and the value returned.
get_cached_stock(r, symbol, t) ==
    IF r.cache[symbol] = NoEntry
    THEN [repo |-> r, value |-> NoneValue]
    ELSE IF t - r.cache[symbol].timestamp < r.cache_duration
    THEN [repo |-> r, value |-> r.cache[symbol].stock]
    ELSE [repo |-> [r EXCEPT !.cache[symbol] = NoEntry], value |-> NoneValue]

\* _cache_stock
cache_stock(r, symbol, stock, t) ==
    [r EXCEPT !.cache[symbol] = [stock |-> stock, timestamp |-> t]]

\* FallbackHandler.with_fallback: it defines wrapper and returns it; neither
\* function is called.
with_fallback(h, key) == [fb |-> h, value |-> WrapperFunction]

\* find_by_symbol, with t the value of the clock: the value of the local
\* cache if there is one; otherwise stock is what with_fallback(...)
\* returns, which is cached if it tests true, and returned.  invocations: how
\* often that wrapper is invoked.
find_by_symbol(r, h, symbol, t) ==
    LET c == get_cached_stock(r, symbol, t)
    IN  IF Truthy(c.value)
        THEN [repo |-> c.repo, fb |-> h, result |-> c.value, hit |-> TRUE,
              invocations |-> 0]
        ELSE LET w == with_fallback(h, symbol)
                 stock == w.value
             IN  [repo |-> IF Truthy(stock)
                           THEN cache_stock(c.repo, symbol, stock, t)
                           ELSE c.repo,
                  fb |-> w.fb, result |-> stock, hit |-> FALSE,
                  invocations |-> 0]

\* No repository in use.
NoRepository == YFinanceStockRepository(1)

----------------------------------------------------------------------------
(* One caller at a time: calls through the breaker, and the clock *)

Threads == 1..NumThreads

\* A caller that is not inside call.
Idle == [pc |-> "idle", reg |-> 0]

Counted(b, o) == o.kind = "raise" /\ o.value \in b.config.expected_exception

NoCall ==
    [kind |-> "none", pre |-> CircuitBreaker(CHOOSE c \in CircuitBreakerConfig : TRUE),
     t0 |-> 0, t1 |-> 0, outcome |-> Return("v1"), during |-> CLOSED,
     result |-> Return("v1"), invoked |-> 0]

\* No retry mechanism in use.
NoRetry == RetryMechanism(CHOOSE c \in RetryConfig : TRUE)

\* failRun: counted failures since the latest success (or construction).
\* probeSucc: successes since the breaker last entered HALF_OPEN.
GhostAfter(gh, b, g, o, invoked) ==
    LET p0 == IF b.state = OPEN /\ g.cb.state = HALF_OPEN THEN 0 ELSE gh.probeSucc
    IN  IF invoked = 0 THEN gh
        ELSE IF o.kind = "return"
        THEN [failRun |-> 0,
              probeSucc |-> IF g.cb.state = HALF_OPEN THEN p0 + 1 ELSE p0]
        ELSE IF Counted(b, o)
        THEN [failRun |-> gh.failRun + 1, probeSucc |-> p0]
        ELSE [failRun |-> gh.failRun, probeSucc |-> p0]

Init ==
    /\ cb \in {CircuitBreaker(c) : c \in CircuitBreakerConfig}
    /\ now = 0
    /\ last = NoCall
    /\ ghost = [failRun |-> 0, probeSucc |-> 0]
    /\ threads = [t \in Threads |-> Idle]
    /\ repo = NoRepository
    /\ fb = NoFallback
    /\ mon = NoMonitor
    /\ retry = NoRetry

\* A caller runs circuit_breaker.call(func); func, when invoked, takes d
\* clock units and has outcome o.
Call ==
    \E o \in Outcomes, d \in 0..MaxOpTime :
        LET g == gate(cb, now)
            t1 == IF g.admit THEN now + d ELSE now
            r == call(cb, now, o, t1)
        IN  /\ t1 <= MaxTime
            /\ g.admit => cb.metrics.total_calls < MaxCalls
            /\ cb' = r.cb
            /\ now' = t1
            /\ last' = [kind |-> "call", pre |-> cb, t0 |-> now, t1 |-> t1,
                        outcome |-> o, during |-> g.cb.state,
                        result |-> r.result, invoked |-> r.invoked]
            /\ ghost' = GhostAfter(ghost, cb, g, o, r.invoked)
            /\ UNCHANGED <<threads, notBreaker>>

\* Time passes between calls.
Tick ==
    /\ now < MaxTime
    /\ now' = now + 1
    /\ UNCHANGED <<cb, last, ghost, threads, notBreaker>>

Next == Call \/ Tick

Spec == Init /\ [][Next]_vars

----------------------------------------------------------------------------
(* Properties of a breaker used by one caller at a time *)

Admitted == last.kind = "call" /\ last.invoked = 1
Rejected == last.kind = "call" /\ last.invoked = 0
CountedFailure == Admitted /\ Counted(last.pre, last.outcome)
Success == Admitted /\ last.outcome.kind = "return"

\* Time elapsed since last_failure_time when the latest call was entered.
ElapsedAtCall == last.t0 - last.pre.metrics.last_failure_time

\* C1: a counted failure on a CLOSED breaker opens it exactly when it is the
\* failure_threshold-th failure in a row (no success in between); after a
\* shorter run the breaker is still CLOSED.
C1_OpensAtThreshold ==
    /\ (cb.state = CLOSED => ghost.failRun < cb.config.failure_threshold)
    /\ (CountedFailure /\ last.pre.state = CLOSED) =>
          /\ ghost.failRun >= cb.config.failure_threshold => cb.state = OPEN
          /\ ghost.failRun < cb.config.failure_threshold => cb.state = CLOSED

C1_Witness ==
    /\ CountedFailure /\ last.pre.state = CLOSED
    /\ cb.config.failure_threshold = 2
    /\ ghost.failRun = 2
    /\ cb.state = OPEN

\* C2: a call on an OPEN breaker entered less than recovery_timeout after
\* last_failure_time raises CircuitBreakerOpenException, which is none of the
\* operation's errors, and does not invoke the operation.
C2_RejectsWhileOpen ==
    /\ CircuitBreakerOpenException \notin Errors
    /\ (/\ last.kind = "call"
        /\ last.pre.state = OPEN
        /\ last.pre.metrics.last_failure_time # None
        /\ ElapsedAtCall < cb.config.recovery_timeout) =>
          /\ last.result = Raise(CircuitBreakerOpenException)
          /\ last.invoked = 0
          /\ cb.metrics.total_calls = last.pre.metrics.total_calls

C2_Witness ==
    /\ Rejected
    /\ last.pre.state = OPEN
    /\ ElapsedAtCall < cb.config.recovery_timeout

\* C3: a call on an OPEN breaker entered at least recovery_timeout after
\* last_failure_time runs with the breaker HALF_OPEN and invokes the
\* operation exactly once.
C3_ProbesAfterTimeout ==
    (/\ last.kind = "call"
     /\ last.pre.state = OPEN
     /\ last.pre.metrics.last_failure_time # None
     /\ ElapsedAtCall >= cb.config.recovery_timeout) =>
       /\ last.during = HALF_OPEN
       /\ last.invoked = 1
       /\ cb.metrics.total_calls = last.pre.metrics.total_calls + 1

C3_Witness ==
    /\ Admitted
    /\ last.pre.state = OPEN
    /\ cb.config.recovery_timeout > 0
    /\ ElapsedAtCall >= cb.config.recovery_timeout
    /\ last.during = HALF_OPEN

\* C4: a HALF_OPEN breaker closes exactly at the success_threshold-th success
\* since it entered HALF_OPEN, and is still HALF_OPEN after fewer.
C4_ClosesAtSuccessThreshold ==
    /\ (cb.state = HALF_OPEN => ghost.probeSucc < cb.config.success_threshold)
    /\ (Success /\ last.during = HALF_OPEN) =>
          /\ ghost.probeSucc = cb.config.success_threshold => cb.state = CLOSED
          /\ ghost.probeSucc < cb.config.success_threshold => cb.state = HALF_OPEN
          /\ ghost.probeSucc <= cb.config.success_threshold

\* One success before the breaker opened, one while probing: with
\* success_threshold = 2 the breaker is still HALF_OPEN.
C4_Witness ==
    /\ Success /\ last.during = HALF_OPEN
    /\ cb.config.success_threshold = 2
    /\ ghost.probeSucc = 1
    /\ cb.metrics.successful_calls = 2
    /\ cb.state = HALF_OPEN

\* C5: a counted failure while HALF_OPEN reopens the breaker and sets
\* last_failure_time to the time of the failure, so that the breaker rejects
\* until recovery_timeout has elapsed from then.
C5_HalfOpenFailureReopens ==
    (CountedFailure /\ last.during = HALF_OPEN) =>
       /\ cb.state = OPEN
       /\ cb.metrics.last_failure_time = last.t1
       /\ \A t \in last.t1..MaxTime :
             should_attempt_reset(cb, t) <=>
                (t - last.t1 >= cb.config.recovery_timeout)

C5_Witness ==
    /\ CountedFailure /\ last.during = HALF_OPEN
    /\ ghost.probeSucc >= 1
    /\ last.t1 > last.pre.metrics.last_failure_time
    /\ cb.state = OPEN

\* C7: an admitted call gives its caller exactly what the operation did: its
\* result, with one success recorded, or its error, with one failure recorded
\* when expected_exception counts it.
C7_ResultPassedThrough ==
    Admitted =>
       /\ last.result = last.outcome
       /\ Success =>
             /\ cb.metrics.successful_calls = last.pre.metrics.successful_calls + 1
             /\ cb.metrics.failed_calls = last.pre.metrics.failed_calls
       /\ CountedFailure =>
             /\ cb.metrics.failed_calls = last.pre.metrics.failed_calls + 1
             /\ cb.metrics.successful_calls = last.pre.metrics.successful_calls

C7_Witness ==
    /\ CountedFailure
    /\ last.result = Raise("KeyboardInterrupt")
    /\ cb.metrics.failed_calls = 2

\* C25: a call rejected by the OPEN breaker leaves the breaker as it was:
\* OPEN, with every metric unchanged, so that the time from which the breaker
\* lets a probe through is the same as before the rejection.
C25_RejectionChangesNothing ==
    Rejected =>
       /\ last.pre.state = OPEN
       /\ cb.state = OPEN
       /\ cb.metrics = last.pre.metrics
       /\ cb = last.pre
       /\ \A t \in 0..MaxTime :
             should_attempt_reset(cb, t) <=> should_attempt_reset(last.pre, t)

C25_Witness ==
    /\ Rejected
    /\ cb.metrics.successful_calls >= 1
    /\ cb.metrics.last_success_time # None
    /\ cb.metrics.consecutive_failures >= 1

\* C26: an OPEN breaker has consecutive_failures >= 1, consecutive_successes
\* = 0 and last_failure_time set; a breaker that a call has taken from CLOSED
\* to OPEN has consecutive_failures >= failure_threshold; and a CLOSED
\* breaker has consecutive_failures < failure_threshold.
C26_StateMetricsConsistent ==
    LET m == cb.metrics
    IN  /\ cb.state = OPEN =>
              /\ m.consecutive_failures >= 1
              /\ m.consecutive_successes = 0
              /\ m.last_failure_time # None
        /\ (last.kind = "call" /\ last.during = CLOSED /\ cb.state = OPEN) =>
              m.consecutive_failures >= cb.config.failure_threshold
        /\ cb.state = CLOSED =>
              m.consecutive_failures < cb.config.failure_threshold

\* A success, then failure_threshold failures in a row.
C26_Witness ==
    /\ CountedFailure /\ last.during = CLOSED
    /\ cb.state = OPEN
    /\ cb.config.failure_threshold = 2
    /\ cb.metrics.successful_calls = 1
    /\ cb.metrics.consecutive_failures = 2

\* The calls that were neither successes nor counted failures.
Uncounted(b) ==
    b.metrics.total_calls - b.metrics.successful_calls - b.metrics.failed_calls

UncountedError == Admitted /\ last.outcome.kind = "raise" /\ ~Counted(last.pre, last.outcome)

\* C34: successful_calls + failed_calls <= total_calls; the difference is 0
\* at first, grows by one with each call whose error is outside
\* expected_exception and with no other call, so that the two are equal
\* exactly while no such error was raised; and such an error reaches the
\* caller and changes total_calls only: state (HALF_OPEN stays HALF_OPEN),
\* the other counters and the timestamps are as before.
C34_UncountedErrorsOnlyTotal ==
    /\ Uncounted(cb) >= 0
    /\ last.kind = "none" => Uncounted(cb) = 0
    /\ (Rejected \/ Success \/ CountedFailure) => Uncounted(cb) = Uncounted(last.pre)
    /\ UncountedError =>
          /\ Uncounted(cb) = Uncounted(last.pre) + 1
          /\ last.result = last.outcome
          /\ cb.state = last.during
          /\ cb.metrics =
                 [last.pre.metrics EXCEPT !.total_calls = @ + 1]

\* A probe that raises an error outside expected_exception: the breaker is
\* still HALF_OPEN.
C34_Witness ==
    /\ UncountedError
    /\ last.pre.state = OPEN
    /\ last.during = HALF_OPEN
    /\ cb.state = HALF_OPEN
    /\ cb.metrics.total_calls = cb.metrics.failed_calls + 1

----------------------------------------------------------------------------
(* Several callers inside CircuitBreaker.call at once.  The methods take no *)
(* lock, so every read and every write of a field of the breaker is a step *)
(* of its own: x += 1 reads x into the caller's register, then writes.     *)
(* A label names the source line the caller is at.                         *)

\* Caller t moves from label from to label to, leaving the breaker as b.
Goto(t, from, to, b) ==
    /\ threads[t].pc = from
    /\ threads' = [threads EXCEPT ![t].pc = to]
    /\ cb' = b
    /\ UNCHANGED <<now, last, ghost, notBreaker>>

\* Caller t reads field f of the metrics into its register.
Load(t, from, to, f) ==
    /\ threads[t].pc = from
    /\ threads' = [threads EXCEPT ![t].pc = to, ![t].reg = cb.metrics[f]]
    /\ UNCHANGED <<cb, now, last, ghost, notBreaker>>

\* Caller t writes its register plus one to field f of the metrics.
StoreInc(t, from, to, f) ==
    Goto(t, from, to, [cb EXCEPT !.metrics[f] = threads[t].reg + 1])

InitConc ==
    /\ cb \in {CircuitBreaker(c) : c \in CircuitBreakerConfig}
    /\ now = 0
    /\ last = NoCall
    /\ ghost = [started |-> 0, admitted |-> 0, succeeded |-> 0, failed |-> 0,
                other |-> 0]
    /\ threads = [t \in Threads |-> Idle]
    /\ repo = NoRepository
    /\ fb = NoFallback
    /\ mon = NoMonitor
    /\ retry = NoRetry

\* A caller enters call.
Enter(t) ==
    /\ threads[t].pc = "idle"
    /\ ghost.started < MaxCalls
    /\ threads' = [threads EXCEPT ![t].pc = "l60"]
    /\ ghost' = [ghost EXCEPT !.started = @ + 1]
    /\ UNCHANGED <<cb, now, last, notBreaker>>

\* line 60: if self.state == OPEN
L60(t) ==
    \/ cb.state = OPEN /\ Goto(t, "l60", "l61", cb)
    \/ cb.state # OPEN /\ Goto(t, "l60", "l68r", cb)

\* lines 61, 65: _should_attempt_reset(), else raise CircuitBreakerOpenException
L61(t) ==
    \/ should_attempt_reset(cb, now) /\ Goto(t, "l61", "l62", cb)
    \/ ~should_attempt_reset(cb, now) /\ Goto(t, "l61", "idle", cb)

\* line 62: self.state = HALF_OPEN
L62(t) == Goto(t, "l62", "l68r", [cb EXCEPT !.state = HALF_OPEN])

\* line 68: self.metrics.total_calls += 1
L68r(t) == Load(t, "l68r", "l68w", "total_calls")
L68w(t) == StoreInc(t, "l68w", "l69", "total_calls")

\* lines 69-76: func runs and returns or raises; what it did decides whether
\* _record_success, _record_failure or neither follows.
L69(t) ==
    \E o \in Outcomes :
        /\ threads[t].pc = "l69"
        /\ threads' = [threads EXCEPT ![t].pc =
                         IF o.kind = "return" THEN "l87r"
                         ELSE IF Counted(cb, o) THEN "l100r" ELSE "idle"]
        /\ ghost' = [ghost EXCEPT
                       !.admitted = @ + 1,
                       !.succeeded = IF o.kind = "return" THEN @ + 1 ELSE @,
                       !.failed = IF Counted(cb, o) THEN @ + 1 ELSE @,
                       !.other = IF o.kind = "raise" /\ ~Counted(cb, o)
                                 THEN @ + 1 ELSE @]
        /\ UNCHANGED <<cb, now, last, notBreaker>>

\* _record_success, lines 87-95
L87r(t) == Load(t, "l87r", "l87w", "successful_calls")
L87w(t) == StoreInc(t, "l87w", "l88r", "successful_calls")
L88r(t) == Load(t, "l88r", "l88w", "consecutive_successes")
L88w(t) == StoreInc(t, "l88w", "l89", "consecutive_successes")
L89(t) == Goto(t, "l89", "l90", [cb EXCEPT !.metrics.consecutive_failures = 0])
L90(t) == Goto(t, "l90", "l92", [cb EXCEPT !.metrics.last_success_time = now])
L92(t) ==
    \/ cb.state = HALF_OPEN /\ Goto(t, "l92", "l93", cb)
    \/ cb.state # HALF_OPEN /\ Goto(t, "l92", "idle", cb)
L93(t) ==
    \/ /\ cb.metrics.consecutive_successes >= cb.config.success_threshold
       /\ Goto(t, "l93", "l94", cb)
    \/ /\ cb.metrics.consecutive_successes < cb.config.success_threshold
       /\ Goto(t, "l93", "idle", cb)
L94(t) == Goto(t, "l94", "l95", [cb EXCEPT !.state = CLOSED])
L95(t) == Goto(t, "l95", "idle", [cb EXCEPT !.metrics.consecutive_successes = 0])

\* _record_failure, lines 100-110
L100r(t) == Load(t, "l100r", "l100w", "failed_calls")
L100w(t) == StoreInc(t, "l100w", "l101r", "failed_calls")
L101r(t) == Load(t, "l101r", "l101w", "consecutive_failures")
L101w(t) == StoreInc(t, "l101w", "l102", "consecutive_failures")
L102(t) == Goto(t, "l102", "l103", [cb EXCEPT !.metrics.consecutive_successes = 0])
L103(t) == Goto(t, "l103", "l105", [cb EXCEPT !.metrics.last_failure_time = now])
L105(t) ==
    \/ cb.state = HALF_OPEN /\ Goto(t, "l105", "l106", cb)
    \/ cb.state # HALF_OPEN /\ Goto(t, "l105", "l108", cb)
L106(t) == Goto(t, "l106", "idle", [cb EXCEPT !.state = OPEN])
L108(t) ==
    \/ cb.state = CLOSED /\ Goto(t, "l108", "l109", cb)
    \/ cb.state # CLOSED /\ Goto(t, "l108", "idle", cb)
L109(t) ==
    \/ /\ cb.metrics.consecutive_failures >= cb.config.failure_threshold
       /\ Goto(t, "l109", "l110", cb)
    \/ /\ cb.metrics.consecutive_failures < cb.config.failure_threshold
       /\ Goto(t, "l109", "idle", cb)
L110(t) == Goto(t, "l110", "idle", [cb EXCEPT !.state = OPEN])

\* The calls overlap within one reading of the clock: now stays as it is.
NextConc ==
    \E t \in Threads :
          \/ Enter(t) \/ L60(t) \/ L61(t) \/ L62(t) \/ L68r(t) \/ L68w(t)
          \/ L69(t)
          \/ L87r(t) \/ L87w(t) \/ L88r(t) \/ L88w(t) \/ L89(t) \/ L90(t)
          \/ L92(t) \/ L93(t) \/ L94(t) \/ L95(t)
          \/ L100r(t) \/ L100w(t) \/ L101r(t) \/ L101w(t) \/ L102(t)
          \/ L103(t) \/ L105(t) \/ L106(t) \/ L108(t) \/ L109(t) \/ L110(t)

SpecConc == InitConc /\ [][NextConc]_vars

AllIdle == \A t \in Threads : threads[t].pc = "idle"

\* C6: once every concurrent call has completed, the breaker's counters equal
\* the numbers of admitted calls, successes and failures, and a breaker whose
\* calls all failed, failure_threshold of them or more, is OPEN.
C6_NoLostUpdate ==
    AllIdle =>
       /\ cb.metrics.total_calls = ghost.admitted
       /\ cb.metrics.successful_calls = ghost.succeeded
       /\ cb.metrics.failed_calls = ghost.failed
       /\ (/\ ghost.succeeded = 0 /\ ghost.other = 0
           /\ ghost.failed >= cb.config.failure_threshold) => cb.state = OPEN

\* The state part of C6 alone.
C6_ConcurrentFailuresOpen ==
    (/\ AllIdle /\ ghost.succeeded = 0 /\ ghost.other = 0
     /\ ghost.failed >= cb.config.failure_threshold) => cb.state = OPEN

----------------------------------------------------------------------------
(* execute_with_retry over a plain operation *)

NoBreaker == CircuitBreaker(CHOOSE c \in CircuitBreakerConfig : TRUE)

\* invocations: how often func was invoked; sleeps: the arguments of the
\* time.sleep calls, in order; raised: the errors func raised, in order.
InitRetry ==
    /\ retry \in {RetryMechanism(c) : c \in RetryConfig}
    /\ now = 0
    /\ ghost = [invocations |-> 0, sleeps |-> <<>>, raised |-> <<>>,
                returned |-> FALSE]
    /\ cb = NoBreaker
    /\ last = NoCall
    /\ threads = [t \in Threads |-> Idle]
    /\ repo = NoRepository
    /\ fb = NoFallback
    /\ mon = NoMonitor

\* A caller runs retry_mechanism.execute_with_retry(func).
Execute ==
    /\ retry.pc = "idle"
    /\ retry' = enter_retry(retry)
    /\ UNCHANGED <<now, ghost, notRetry>>

\* One iteration of the loop: func is invoked and does o; on a retryable
\* error before the last attempt the caller sleeps.
Attempt ==
    \E o \in Outcomes, u \in Uniform :
        LET r == iterate(retry, o, u)
        IN  /\ retry.pc = "loop"
            /\ ~retry.config.jitter => u = 0
            /\ retry' = r
            /\ now' = now + Slept(r)
            /\ ghost' = [invocations |-> ghost.invocations + 1,
                         sleeps |-> IF r.delay = None THEN ghost.sleeps
                                    ELSE Append(ghost.sleeps, r.delay),
                         raised |-> IF o.kind = "raise"
                                    THEN Append(ghost.raised, o.value)
                                    ELSE ghost.raised,
                         returned |-> ghost.returned \/ o.kind = "return"]
            /\ UNCHANGED notRetry

NextRetry == Execute \/ Attempt

SpecRetry == InitRetry /\ [][NextRetry]_vars

----------------------------------------------------------------------------
(* Properties of execute_with_retry over a plain operation *)

Exhausted ==
    /\ retry.pc = "done"
    /\ ~ghost.returned
    /\ \A i \in 1..Len(ghost.raised) : ghost.raised[i] \in retry.config.retry_on

\* C8: when every invocation of the operation raises a retryable error,
\* execute_with_retry invokes it exactly max_attempts times and then raises
\* the error of the last invocation itself.
C8_ExhaustedRaisesLast ==
    /\ ghost.invocations <= retry.config.max_attempts
    /\ Exhausted =>
          /\ ghost.invocations = retry.config.max_attempts
          /\ retry.result = Raise(ghost.raised[Len(ghost.raised)])

C8_Witness ==
    /\ Exhausted
    /\ retry.config.max_attempts = 3
    /\ ghost.invocations = 3
    /\ ghost.raised = <<"ConnectionError", "ConnectionError", "KeyboardInterrupt">>
    /\ retry.result = Raise("KeyboardInterrupt")

\* initial_delay * backoff_factor^k, by repeated multiplication
RECURSIVE Nominal(_, _)
Nominal(c, k) == IF k = 0 THEN c.initial_delay ELSE Nominal(c, k - 1) * c.backoff_factor

\* C9: without jitter the sleep after failed attempt k (from 0) lasts
\* min(initial_delay * backoff_factor^k, max_delay); the delays never
\* decrease and never exceed max_delay, and are 1, 2, 4, 8 for
\* initial_delay 1, backoff_factor 2, max_delay 60.
C9_DelaySequence ==
    ~retry.config.jitter =>
       LET sl == ghost.sleeps
       IN  /\ retry.pc = "loop" => Len(sl) = retry.attempt
           /\ \A k \in 1..Len(sl) :
                 /\ sl[k] = Min(Nominal(retry.config, k - 1), retry.config.max_delay)
                 /\ sl[k] <= retry.config.max_delay
                 /\ k > 1 => sl[k - 1] <= sl[k]
           /\ (/\ retry.config.initial_delay = 1
               /\ retry.config.backoff_factor = 2
               /\ retry.config.max_delay = DefaultMaxDelay
               /\ Len(sl) = 4) => sl = <<1, 2, 4, 8>>

C9_Witness ==
    /\ ~retry.config.jitter
    /\ retry.config.initial_delay = 1
    /\ retry.config.backoff_factor = 2
    /\ retry.config.max_delay = DefaultMaxDelay
    /\ retry.pc = "loop"
    /\ ghost.sleeps = <<1, 2, 4, 8>>

\* A delay cut down to max_delay.
C9_WitnessCapped ==
    /\ ~retry.config.jitter
    /\ retry.config.max_delay = 3
    /\ ghost.sleeps = <<2, 3, 3>>

\* C28: execute_with_retry ends at the first attempt that returns, with that
\* result: after k retryable failures and a success the operation has been
\* invoked k + 1 times and time.sleep called k times, once after each
\* failure; while the loop runs there is one sleep per failed attempt, and
\* in no case is there a sleep after the attempt that ends the call.
C28_StopsAtFirstSuccess ==
    /\ retry.pc = "loop" =>
          /\ Len(ghost.sleeps) = Len(ghost.raised)
          /\ ghost.invocations = Len(ghost.raised)
    /\ retry.pc = "done" =>
          /\ retry.delay = None
          /\ Len(ghost.sleeps) = ghost.invocations - 1
    /\ ghost.returned =>
          /\ retry.pc = "done"
          /\ retry.result.kind = "return"
          /\ Len(ghost.raised) < retry.config.max_attempts
          /\ ghost.invocations = Len(ghost.raised) + 1
          /\ Len(ghost.sleeps) = Len(ghost.raised)

\* Two failures, then a success.
C28_Witness ==
    /\ ghost.returned
    /\ Len(ghost.raised) = 2
    /\ ghost.invocations = 3
    /\ Len(ghost.sleeps) = 2
    /\ retry.config.max_attempts > 3
    /\ retry.result = Return("v1")

\* The attempts used up: max_attempts invocations, one sleep fewer.
C28_WitnessExhausted ==
    /\ Exhausted
    /\ retry.config.max_attempts = 3
    /\ ghost.invocations = 3
    /\ Len(ghost.sleeps) = 2

\* C29: with jitter the sleep after failed attempt k (from 0) lasts between
\* 0.75 d and 1.25 d, where d = min(initial_delay * backoff_factor^k,
\* max_delay); it is never negative and never more than 1.25 max_delay.
C29_JitterWithinQuarter ==
    retry.config.jitter =>
       \A k \in 1..Len(ghost.sleeps) :
          LET d == Min(Nominal(retry.config, k - 1), retry.config.max_delay)
              sl == ghost.sleeps[k]
          IN  /\ 3 * d <= 4 * sl
              /\ 4 * sl <= 5 * d
              /\ sl >= 0
              /\ 4 * sl <= 5 * retry.config.max_delay

\* A delay capped at max_delay = 4 and then raised by its quarter.
C29_Witness ==
    /\ retry.config.jitter
    /\ retry.config.max_delay = 4
    /\ retry.config.initial_delay = 4
    /\ retry.config.backoff_factor = 2
    /\ ghost.sleeps = <<3, 5>>

\* C32: an error of the operation that retry_on does not hold leaves
\* execute_with_retry at once: it is the last error the operation raised, the
\* invocation that raised it is the last one, no sleep follows it, and the
\* caller gets that error.
C32_NonRetryablePropagates ==
    \A i \in 1..Len(ghost.raised) :
        ghost.raised[i] \notin retry.config.retry_on =>
            /\ i = Len(ghost.raised)
            /\ retry.pc = "done"
            /\ retry.result = Raise(ghost.raised[i])
            /\ ghost.invocations = i
            /\ Len(ghost.sleeps) = i - 1
            /\ retry.delay = None
            /\ ~ghost.returned

\* The first invocation raises an error outside retry_on.
C32_Witness ==
    /\ ghost.raised = <<"KeyboardInterrupt">>
    /\ "KeyboardInterrupt" \notin retry.config.retry_on
    /\ retry.config.max_attempts >= 2
    /\ ghost.invocations = 1
    /\ ghost.sleeps = <<>>
    /\ retry.result = Raise("KeyboardInterrupt")

\* A retryable error first, then one outside retry_on.
C32_WitnessSecond ==
    /\ ghost.raised = <<"ConnectionError", "KeyboardInterrupt">>
    /\ retry.config.retry_on = {"ConnectionError"}
    /\ retry.config.max_attempts >= 3
    /\ ghost.invocations = 2
    /\ Len(ghost.sleeps) = 1

\* The delays as RetryConfig has them by default, without jitter; every
\* max_attempts and every retry_on.
LiveRetryConfig ==
    {c \in RetryConfig :
        /\ c.initial_delay = 1 /\ c.backoff_factor = 2
        /\ c.max_delay = DefaultMaxDelay /\ ~c.jitter}

InitRetryLive == InitRetry /\ retry.config \in LiveRetryConfig

\* The operation terminates: an iteration of the loop that has begun ends.
SpecRetryLive == InitRetryLive /\ [][NextRetry]_vars /\ WF_vars(Attempt)

\* The bounds of a run of execute_with_retry, and what it ends with.
RetryBounded ==
    /\ ghost.invocations <= retry.config.max_attempts
    /\ Len(ghost.sleeps) <= retry.config.max_attempts - 1
    /\ retry.pc = "loop" => retry.attempt < retry.config.max_attempts
    /\ retry.pc = "done" =>
          /\ ghost.invocations >= 1
          /\ \/ ghost.returned /\ retry.result.kind = "return"
             \/ /\ retry.result.kind = "raise"
                /\ retry.result.value = ghost.raised[Len(ghost.raised)]

\* C40: with max_attempts >= 1 and an operation that terminates, every
\* execute_with_retry ends, after at most max_attempts invocations and
\* max_attempts - 1 sleeps, with the operation's result or with an error the
\* operation raised.
C40_RetryTerminates == []RetryBounded /\ (retry.pc = "loop" ~> retry.pc = "done")

\* All attempts used: max_attempts invocations and one sleep fewer.
C40_Witness ==
    /\ retry.pc = "done"
    /\ retry.config.max_attempts = 4
    /\ ghost.invocations = 4
    /\ Len(ghost.sleeps) = 3
    /\ retry.result = Raise("ConnectionError")

----------------------------------------------------------------------------
(* The chain of the repositories: execute_with_retry over                  *)
(* circuit_breaker.call over the fetch.  The delays have no jitter, so the  *)
(* clock stays a whole number.  Inside execute_with_retry the clock moves  *)
(* by the sleeps (the fetch takes no time); between two runs of the chain  *)
(* any time may pass.                                                      *)

\* The retry configurations of the chain: no jitter, the default retry_on,
\* backoff_factor and max_delay, as the repositories leave them.
ChainRetryConfig ==
    {c \in RetryConfig :
        /\ ~c.jitter
        /\ c.retry_on = {"ConnectionError", CircuitBreakerOpenException}
        /\ c.backoff_factor = 2
        /\ c.max_delay = DefaultMaxDelay
        /\ c.initial_delay <= 1
        /\ c.max_attempts <= 3}

\* The breaker configurations of the chain: the default expected_exception.
ChainBreakerConfig ==
    {c \in CircuitBreakerConfig : c.expected_exception = {"ConnectionError"}}

\* func as execute_with_retry gets it with the breaker set up wrongly: the
\* fetch itself, not the breaker's call of it
attempt_unguarded(b, t0, o, t1) == [cb |-> b, result |-> o, invoked |-> 1]

\* func as execute_with_retry gets it: lambda: self.circuit_breaker.call(fetch)
attempt(b, t0, o, t1) == call(b, t0, o, t1)

\* attempts, fetches: iterations of the loop and invocations of the fetch in
\* the current execute_with_retry; failures: those in which the fetch raised a
\* counted error; total0, failed0: the breaker's total_calls and failed_calls
\* when execute_with_retry was entered.  last is the latest call of the
\* breaker in the current execute_with_retry.
InitChain ==
    /\ cb \in {CircuitBreaker(c) : c \in ChainBreakerConfig}
    /\ retry \in {RetryMechanism(c) : c \in ChainRetryConfig}
    /\ now = 0
    /\ last = NoCall
    /\ ghost = [attempts |-> 0, fetches |-> 0, failures |-> 0,
                total0 |-> 0, failed0 |-> 0]
    /\ threads = [t \in Threads |-> Idle]
    /\ repo = NoRepository
    /\ fb = NoFallback
    /\ mon = NoMonitor

\* A caller runs the chain: execute_with_retry is entered.
ExecuteChain ==
    /\ retry.pc \in {"idle", "done"}
    /\ retry' = enter_retry(retry)
    /\ ghost' = [attempts |-> 0, fetches |-> 0, failures |-> 0,
                 total0 |-> cb.metrics.total_calls,
                 failed0 |-> cb.metrics.failed_calls]
    /\ last' = NoCall
    /\ UNCHANGED <<cb, now, notChain>>

\* One iteration of the loop: the breaker is called with the fetch, which
\* does o if the breaker invokes it; then the caller sleeps or leaves.
AttemptChain ==
    \E o \in Outcomes :
        LET g == gate(cb, now)
            a == attempt(cb, now, o, now)
            r == iterate(retry, a.result, 0)
        IN  /\ retry.pc = "loop"
            /\ a.cb.metrics.total_calls <= MaxCalls
            /\ now + Slept(r) <= MaxTime
            /\ cb' = a.cb
            /\ retry' = r
            /\ now' = now + Slept(r)
            /\ last' = [kind |-> "call", pre |-> cb, t0 |-> now, t1 |-> now,
                        outcome |-> o, during |-> g.cb.state,
                        result |-> a.result, invoked |-> a.invoked]
            /\ ghost' = [ghost EXCEPT
                           !.attempts = @ + 1,
                           !.fetches = @ + a.invoked,
                           !.failures = IF a.invoked = 1 /\ Counted(cb, o)
                                        THEN @ + 1 ELSE @]
            /\ UNCHANGED notChain

\* Time passes between two runs of the chain.
TickChain ==
    /\ retry.pc \in {"idle", "done"}
    /\ now < MaxTime
    /\ now' = now + 1
    /\ UNCHANGED <<cb, last, ghost, retry, notChain>>

NextChain == ExecuteChain \/ AttemptChain \/ TickChain

SpecChain == InitChain /\ [][NextChain]_vars

----------------------------------------------------------------------------
(* Properties of the chain *)

\* The latest attempt found the breaker OPEN with less than recovery_timeout
\* elapsed since last_failure_time.
AttemptWhileOpen ==
    /\ last.kind = "call"
    /\ last.pre.state = OPEN
    /\ last.pre.metrics.last_failure_time # None
    /\ ElapsedAtCall < cb.config.recovery_timeout

\* C10: every attempt of execute_with_retry is one call of the breaker: the
\* fetches of a retry sequence are the breaker's admitted calls, each failed
\* one recorded as a failure, and an attempt made while the breaker is OPEN
\* and its timeout has not elapsed is rejected without invoking the fetch,
\* the retry mechanism catching CircuitBreakerOpenException in its place.
C10_BreakerGatesEachAttempt ==
    /\ ghost.fetches <= ghost.attempts
    /\ cb.metrics.total_calls = ghost.total0 + ghost.fetches
    /\ cb.metrics.failed_calls = ghost.failed0 + ghost.failures
    /\ CountedFailure =>
          /\ cb.metrics.failed_calls = last.pre.metrics.failed_calls + 1
          /\ cb.metrics.consecutive_failures =
                last.pre.metrics.consecutive_failures + 1
          /\ retry.last_exception = last.outcome.value
    /\ AttemptWhileOpen =>
          /\ last.invoked = 0
          /\ last.result = Raise(CircuitBreakerOpenException)
          /\ retry.last_exception = CircuitBreakerOpenException
          /\ cb.state = OPEN

\* Two failed attempts open the breaker; the third attempt of the same
\* sequence is rejected.
C10_Witness ==
    /\ AttemptWhileOpen
    /\ retry.config.max_attempts = 3
    /\ cb.config.failure_threshold = 2
    /\ ghost.attempts = 3
    /\ ghost.fetches = 2
    /\ ghost.total0 = 0
    /\ cb.metrics.failed_calls = 2
    /\ retry.pc = "done"
    /\ retry.result = Raise(CircuitBreakerOpenException)

\* The latest attempt of the current execute_with_retry was rejected by the
\* breaker.
RejectedAttempt ==
    /\ last.kind = "call"
    /\ last.result = Raise(CircuitBreakerOpenException)

\* C35: with the default retry_on, a CircuitBreakerOpenException raised by
\* the breaker inside execute_with_retry is caught like any retryable error:
\* before the last attempt the mechanism sleeps the backoff delay of that
\* attempt and goes round to call the breaker again; at the last of
\* max_attempts attempts it ends, without a sleep, raising the
\* CircuitBreakerOpenException of that attempt.
C35_RejectionIsRetried ==
    RejectedAttempt =>
        /\ last.invoked = 0
        /\ retry.last_exception = CircuitBreakerOpenException
        /\ retry.attempt = ghost.attempts
        /\ ghost.attempts <= retry.config.max_attempts
        /\ IF ghost.attempts < retry.config.max_attempts
           THEN /\ retry.pc = "loop"
                /\ retry.delay =
                      Min(retry.config.initial_delay
                            * Pow(retry.config.backoff_factor,
                                  ghost.attempts - 1),
                          retry.config.max_delay)
                /\ now = last.t1 + retry.delay
           ELSE /\ retry.pc = "done"
                /\ retry.delay = None
                /\ retry.result = Raise(CircuitBreakerOpenException)

\* A rejected first attempt is followed by a sleep of initial_delay and a
\* further attempt.
C35_Witness ==
    /\ RejectedAttempt
    /\ ghost.attempts = 1
    /\ retry.config.max_attempts = 2
    /\ retry.pc = "loop"
    /\ retry.delay = 1
    /\ now = last.t1 + 1

\* Every attempt of a sequence of three is rejected: the sequence ends with
\* the rejection of the third.
C35_WitnessExhausted ==
    /\ RejectedAttempt
    /\ ghost.attempts = 3
    /\ ghost.fetches = 0
    /\ retry.config.max_attempts = 3
    /\ retry.pc = "done"
    /\ retry.result = Raise(CircuitBreakerOpenException)

----------------------------------------------------------------------------
(* FallbackHandler: invocations of one wrapper after another *)

\* last is the latest invocation of a wrapper: the handler before it, the
\* outcomes of the two functions (Pending until they end, fallback Pending
\* for good if the fallback is not invoked), the time t1 at which the primary
\* ended and t2 at which the invocation ended, what the caller got, and how
\* often the fallback ran.  kind says where the invocation is: in the primary
\* ("primary"), in the fallback ("fallback"), or over ("wrapper").
InitFallback ==
    /\ fb \in {FallbackHandler(c) : c \in FallbackConfig}
    /\ now = 0
    /\ last = NoCall
    /\ ghost = [failRun |-> 0, probeSucc |-> 0]
    /\ cb = NoBreaker
    /\ retry = NoRetry
    /\ threads = [t \in Threads |-> Idle]
    /\ repo = NoRepository
    /\ mon = NoMonitor

\* A caller runs with_fallback(primary, fallback, key)(): the wrapper calls
\* the primary.
Invoke ==
    /\ last.kind \in {"none", "wrapper"}
    /\ \E key \in Keys \cup {NoKey} :
           last' = [kind |-> "primary", pre |-> fb, key |-> key,
                    primary |-> Pending, fallback |-> Pending,
                    t1 |-> None, t2 |-> None, result |-> Pending,
                    fallbacks |-> 0, from |-> "primary"]
    /\ UNCHANGED <<fb, now, cb, ghost, threads, repo, retry, mon>>

\* The invocation after the primary ended with outcome p at time t.
after_primary(h, l, p, t) ==
    LET w == IF p.kind = "return" THEN on_success(h, l.key, p, t)
             ELSE on_failure(h, l.key, p, t)
    IN  [fb |-> w.fb,
         last |-> [l EXCEPT !.kind = IF w.from = "miss" THEN "fallback"
                                     ELSE "wrapper",
                            !.primary = p, !.t1 = t,
                            !.t2 = IF w.from = "miss" THEN None ELSE t,
                            !.result = w.result, !.from = w.from]]

\* The primary ends with outcome p: lines 207-220.
PrimaryEnds ==
    /\ last.kind = "primary"
    /\ \E p \in PrimaryOutcomes :
           LET a == after_primary(fb, last, p, now)
           IN  fb' = a.fb /\ last' = a.last
    /\ UNCHANGED <<now, cb, ghost, threads, repo, retry, mon>>

\* The invocation after the fallback ended with outcome f at time t.
after_fallback(h, l, f, t) ==
    LET w == on_fallback(h, l.key, l.primary, f, t)
    IN  [fb |-> w.fb,
         last |-> [l EXCEPT !.kind = "wrapper", !.fallback = f, !.t2 = t,
                            !.result = w.result, !.fallbacks = w.fallbacks,
                            !.from = w.from]]

\* The fallback ends with an outcome f of those in outcomes: lines 223-231.
FallbackEndsWith(outcomes) ==
    /\ last.kind = "fallback"
    /\ \E f \in outcomes :
           LET a == after_fallback(fb, last, f, now)
           IN  fb' = a.fb /\ last' = a.last
    /\ UNCHANGED <<now, cb, ghost, threads, repo, retry, mon>>

FallbackEnds == FallbackEndsWith(FallbackOutcomes)

NextFallback == Invoke \/ PrimaryEnds \/ FallbackEnds \/ Tick

SpecFallback == InitFallback /\ [][NextFallback]_vars

----------------------------------------------------------------------------
(* Properties of the fallback handler *)

Invoked == last.kind = "wrapper"
PrimarySucceeded == Invoked /\ last.primary.kind = "return"
\* The primary raised an error the wrapper's `except Exception` is about.
PrimaryFailed ==
    Invoked /\ last.primary.kind = "raise" /\ last.primary.value \in Exception

\* A cache_key was given and the handler caches.
Caching == last.key # NoKey /\ last.pre.config.enabled

\* When the primary ended, the cache held an entry for the key no older than
\* cache_ttl.
Fresh ==
    /\ last.key # NoKey
    /\ last.pre.cache[last.key] # Absent
    /\ last.t1 - last.pre.cache[last.key].timestamp <= last.pre.config.cache_ttl

\* The entries of the other keys are as they were before the invocation.
OtherKeysKept == \A k \in Keys \ {last.key} : fb.cache[k] = last.pre.cache[k]

\* C11: when the primary succeeds its result is returned, the fallback is not
\* invoked and, with a cache_key and caching enabled, the entry of the key
\* holds that result with the time at which it was stored; without them the
\* cache is as it was.
C11_PrimarySuccessCached ==
    PrimarySucceeded =>
        /\ last.result = last.primary
        /\ last.fallbacks = 0
        /\ OtherKeysKept
        /\ IF Caching
           THEN fb.cache[last.key] =
                    [data |-> last.primary.value, timestamp |-> last.t1]
           ELSE fb.cache = last.pre.cache

\* The primary returned v1 one clock unit after an older entry with another
\* value had been stored, and the entry was replaced.
C11_Witness ==
    /\ PrimarySucceeded
    /\ Caching
    /\ last.pre.cache[last.key] = [data |-> "v2", timestamp |-> 0]
    /\ last.primary = Return("v1")
    /\ last.t1 = 1
    /\ fb.cache[last.key] = [data |-> "v1", timestamp |-> 1]

\* C12: when the primary fails and the cache holds a fresh entry for the key,
\* the cached value is returned, whatever it is, and the fallback is not
\* invoked.
C12_FreshCacheServed ==
    (PrimaryFailed /\ Fresh) =>
        /\ last.result = Return(last.pre.cache[last.key].data)
        /\ last.fallbacks = 0

\* What the code does there: a fresh entry is served when its value is
\* true where `if cached:` tests it; otherwise the fallback runs.
FreshServedIfTruthy ==
    (PrimaryFailed /\ Fresh) =>
        IF Truthy(last.pre.cache[last.key].data)
        THEN /\ last.result = Return(last.pre.cache[last.key].data)
             /\ last.fallbacks = 0
             /\ fb = last.pre
        ELSE /\ last.fallbacks = 1
             /\ last.result = last.fallback

\* C13: when the primary fails and the cache has no entry for the key, or an
\* expired one, the fallback is invoked once and its result is returned and,
\* with a cache_key and caching enabled, stored under the key with the time
\* at which the fallback ended.
C13_FallbackOnMiss ==
    (PrimaryFailed /\ ~Fresh) =>
        /\ last.fallbacks = 1
        /\ last.from = "fallback"
        /\ last.result = last.fallback
        /\ OtherKeysKept
        /\ last.fallback.kind = "return" =>
               IF Caching
               THEN fb.cache[last.key] =
                        [data |-> last.fallback.value, timestamp |-> last.t2]
               ELSE fb.cache = last.pre.cache

\* The primary failed over an expired entry holding v1; the fallback ended a
\* clock unit later, returned v2, and v2 was stored with the later time.
C13_Witness ==
    /\ PrimaryFailed
    /\ Caching
    /\ last.pre.cache[last.key] # Absent
    /\ last.pre.cache[last.key].data = "v1"
    /\ last.t1 - last.pre.cache[last.key].timestamp > last.pre.config.cache_ttl
    /\ last.fallback = Return("v2")
    /\ last.t2 = last.t1 + 1
    /\ fb.cache[last.key] = [data |-> "v2", timestamp |-> last.t2]
    /\ last.result = Return("v2")

\* C14: when the primary and the fallback both fail and there is no fresh
\* entry, the error raised is the fallback's, and the key has no entry
\* afterwards.
C14_FallbackErrorRaised ==
    (PrimaryFailed /\ ~Fresh /\ last.fallback.kind = "raise") =>
        /\ last.result = last.fallback
        /\ last.key # NoKey => fb.cache[last.key] = Absent
        /\ OtherKeysKept

\* The primary raised CircuitBreakerOpenException over an expired entry, the
\* fallback raised ConnectionError, and that is what the caller got.
C14_Witness ==
    /\ PrimaryFailed
    /\ Caching
    /\ last.primary = Raise(CircuitBreakerOpenException)
    /\ last.pre.cache[last.key] # Absent
    /\ ~Fresh
    /\ last.fallback = Raise("ConnectionError")
    /\ last.result = Raise("ConnectionError")
    /\ fb.cache[last.key] = Absent

\* The wrapper has looked the key up in the cache (the primary failed with a
\* cache_key and caching enabled) and found an entry, of the age
\* EntryAge.
CacheRead ==
    /\ last.kind \in {"fallback", "wrapper"}
    /\ last.primary.kind = "raise"
    /\ last.primary.value \in Exception
    /\ Caching
    /\ last.pre.cache[last.key] # Absent

EntryAge == last.t1 - last.pre.cache[last.key].timestamp

\* What a step leaves true of the latest read of the cache.
ReadByAge ==
    CacheRead =>
       LET e == last.pre.cache[last.key]
           c == get_cached_result(last.pre, last.key, last.t1)
       IN  /\ EntryAge <= last.pre.config.cache_ttl =>
                 /\ c.value = e.data
                 /\ c.fb = last.pre
                 /\ last.kind = "fallback" => fb = last.pre
                 /\ Truthy(e.data) =>
                        /\ last.from = "cache"
                        /\ last.result = Return(e.data)
                        /\ fb = last.pre
           /\ EntryAge > last.pre.config.cache_ttl =>
                 /\ c.value = NoneValue
                 /\ c.fb.cache[last.key] = Absent
                 /\ last.from \in {"miss", "fallback"}
                 /\ last.kind = "fallback" => fb.cache[last.key] = Absent
                 /\ last.kind = "wrapper" => last.fallbacks = 1

\* A step that removes an entry is a read of that entry at an age above
\* cache_ttl.
RemovedOnlyByExpiredRead ==
    \A k \in Keys :
        (fb.cache[k] # Absent /\ fb'.cache[k] = Absent) =>
            /\ last.kind = "primary"
            /\ last.key = k
            /\ last'.kind = "fallback"
            /\ last'.primary.kind = "raise"
            /\ last'.primary.value \in Exception
            /\ fb.config.enabled
            /\ now - fb.cache[k].timestamp > fb.config.cache_ttl

\* C30: _get_cached_result returns an entry's data while the entry's age is
\* at most cache_ttl (a read at age cache_ttl is a hit, and the entry
\* stays); a read at a greater age removes the entry and is a miss, after
\* which the fallback runs; and no other step removes an entry.
C30_LazyEviction == [][RemovedOnlyByExpiredRead /\ ReadByAge']_vars

\* A hit at age cache_ttl.
C30_Witness ==
    /\ CacheRead
    /\ last.pre.config.cache_ttl = 1
    /\ EntryAge = 1
    /\ last.from = "cache"
    /\ fb.cache[last.key] # Absent

\* A miss one clock unit later: the entry is gone and the fallback is next.
C30_WitnessExpired ==
    /\ CacheRead
    /\ last.pre.config.cache_ttl = 1
    /\ EntryAge = 2
    /\ last.kind = "fallback"
    /\ fb.cache[last.key] = Absent

----------------------------------------------------------------------------
(* MonitoringService: request metrics *)

\* calls, ok, sum: how many record_request calls there were, how many with
\* success=True, and the sum of their response times.
InitMetrics ==
    /\ mon = MonitoringService
    /\ ghost = [calls |-> 0, ok |-> 0, sum |-> 0]
    /\ now = 0
    /\ last = NoCall
    /\ cb = NoBreaker
    /\ retry = NoRetry
    /\ fb = NoFallback
    /\ threads = [t \in Threads |-> Idle]
    /\ repo = NoRepository

\* A caller runs record_request(success, response_time).
RecordRequest ==
    /\ mon.system_metrics.total_requests < MaxRequests
    /\ \E success \in BOOLEAN, response_time \in 0..MaxResponseTime :
           /\ mon' = record_request(mon, success, response_time)
           /\ ghost' = [calls |-> ghost.calls + 1,
                        ok |-> IF success THEN ghost.ok + 1 ELSE ghost.ok,
                        sum |-> ghost.sum + response_time]
    /\ UNCHANGED <<cb, now, last, threads, repo, retry, fb>>

NextMetrics == RecordRequest

SpecMetrics == InitMetrics /\ [][NextMetrics]_vars

\* How many alerts of a list are about a component, at a level.
Count(alerts, level, component) ==
    Cardinality({i \in 1..Len(alerts) : alerts[i] = Alert(level, component)})

\* C15: after any sequence of record_request calls the three counters are
\* the numbers of calls, of calls with success=True and of the others, and
\* average_response_time is the sum of the recorded times over their number.
C15_CountsAndMean ==
    LET sm == mon.system_metrics
    IN  /\ sm.total_requests = ghost.calls
        /\ sm.successful_requests = ghost.ok
        /\ sm.failed_requests = ghost.calls - ghost.ok
        /\ ghost.calls > 0 =>
               sm.average_response_time = Rat(ghost.sum, ghost.calls)

\* The example of the specification, in clock units of half a second:
\* (True, 1.0) and (False, 0.5) give total 2, successful 1, average 0.75.
C15_Witness ==
    /\ ghost = [calls |-> 2, ok |-> 1, sum |-> 3]
    /\ mon.system_metrics.total_requests = 2
    /\ mon.system_metrics.successful_requests = 1
    /\ mon.system_metrics.average_response_time = [num |-> 3, den |-> 2]

\* Three requests whose running mean is not a whole number of units at any
\* point after the first.
C15_WitnessThirds ==
    /\ ghost = [calls |-> 3, ok |-> 3, sum |-> 4]
    /\ mon.system_metrics.average_response_time = [num |-> 4, den |-> 3]

\* C18: get_alerts() has the warning of component "system" exactly when
\* total_requests > 10 and successful_requests / max(1, total_requests) < 0.9.
C18_SystemWarning ==
    LET sm == mon.system_metrics
        low == /\ sm.total_requests > 10
               /\ 10 * sm.successful_requests < 9 * Max(1, sm.total_requests)
        alerts == get_alerts(mon, cb)
    IN  /\ Count(alerts, "warning", "system") = IF low THEN 1 ELSE 0
        /\ Count(alerts, "critical", "system") = 0
        /\ sm.total_requests = ghost.calls
        /\ sm.successful_requests = ghost.ok

\* Eleven requests of which nine succeeded: the warning is there.
C18_Witness ==
    /\ ghost.calls = 11
    /\ ghost.ok = 9
    /\ Count(get_alerts(mon, cb), "warning", "system") = 1

\* Ten requests that all failed: no warning.
C18_WitnessTen ==
    /\ ghost.calls = 10
    /\ ghost.ok = 0
    /\ get_alerts(mon, cb) = <<>>

\* Twenty requests of which eighteen succeeded, a rate of 0.90: no warning.
C18_WitnessNineTenths ==
    /\ ghost.calls = 20
    /\ ghost.ok = 18
    /\ get_alerts(mon, cb) = <<>>

----------------------------------------------------------------------------
(* MonitoringService: health of the components and of the watched breaker *)

\* The service watches the breaker cb.  last names the latest operation and
\* holds the service as it was before it.  The clock stands still: the
\* breaker leaves OPEN on the next call if recovery_timeout is 0 and stays
\* OPEN otherwise.
Did(op) == [kind |-> op, pre |-> mon]

InitMon ==
    /\ mon = MonitoringService
    /\ cb \in {CircuitBreaker(c) : c \in CircuitBreakerConfig}
    /\ now = 0
    /\ last = [kind |-> "none", pre |-> MonitoringService]
    /\ ghost = [failRun |-> 0, probeSucc |-> 0]
    /\ retry = NoRetry
    /\ fb = NoFallback
    /\ threads = [t \in Threads |-> Idle]
    /\ repo = NoRepository

\* The owner of the breaker registers it, once.
Register ==
    /\ \A i \in 1..Len(mon.circuit_breakers) : mon.circuit_breakers[i] # BreakerName
    /\ mon' = register_circuit_breaker(mon, BreakerName)
    /\ last' = Did("register")
    /\ UNCHANGED <<cb, now, ghost, threads, repo, retry, fb>>

\* A caller runs circuit_breaker.call(func); func has outcome o.
WatchedCall ==
    /\ \E o \in Outcomes :
           LET g == gate(cb, now)
           IN  /\ g.admit => cb.metrics.total_calls < MaxWatchedCalls
               /\ cb' = call(cb, now, o, now).cb
    /\ last' = Did("call")
    /\ UNCHANGED <<mon, now, ghost, threads, repo, retry, fb>>

\* A component reports its health.
UpdateHealthStatus ==
    /\ \E c \in ServiceComponents, status \in Statuses :
           mon' = update_health_status(mon, c, status)
    /\ last' = Did("update")
    /\ UNCHANGED <<cb, now, ghost, threads, repo, retry, fb>>

\* A caller runs check_circuit_breaker_health().
CheckCircuitBreakerHealth ==
    /\ mon' = check_circuit_breaker_health(mon, cb)
    /\ last' = Did("check")
    /\ UNCHANGED <<cb, now, ghost, threads, repo, retry, fb>>

NextMon == Register \/ WatchedCall \/ UpdateHealthStatus \/ CheckCircuitBreakerHealth

SpecMon == InitMon /\ [][NextMon]_vars

----------------------------------------------------------------------------
(* Properties of the health map and the alerts *)

\* The statuses of the entries of a component in a health map (one entry at
\* most, if the map is keyed by component).
StatusesOf(hc, c) == {hc[i].status : i \in {j \in 1..Len(hc) : hc[j].component = c}}
EntriesOf(hc, c) == Cardinality({j \in 1..Len(hc) : hc[j].component = c})

Registered == {mon.circuit_breakers[i] : i \in 1..Len(mon.circuit_breakers)}

\* C16: get_system_health() reports "unhealthy" if an entry of the health map
\* is unhealthy, otherwise "degraded" if one is degraded, otherwise "healthy";
\* with an empty map it reports "healthy".
C16_OverallStatus ==
    LET h == get_system_health(mon, cb)
        statuses == UNION {StatusesOf(mon.health_checks, c) : c \in Components}
    IN  /\ "unhealthy" \in statuses => h.status = "unhealthy"
        /\ ("unhealthy" \notin statuses /\ "degraded" \in statuses) =>
               h.status = "degraded"
        /\ ("unhealthy" \notin statuses /\ "degraded" \notin statuses) =>
               h.status = "healthy"
        /\ mon.health_checks = <<>> => h.status = "healthy"
        /\ h.components = mon.health_checks

\* One component unhealthy and the other not healthy either: the overall
\* status is "unhealthy".
C16_Witness ==
    /\ StatusesOf(mon.health_checks, "query_processing_service") = {"unhealthy"}
    /\ StatusesOf(mon.health_checks, component_of(BreakerName)) = {"degraded"}
    /\ get_system_health(mon, cb).status = "unhealthy"

\* The example of the specification: one component unhealthy, the other
\* healthy.
C16_WitnessExample ==
    /\ StatusesOf(mon.health_checks, "query_processing_service") = {"healthy"}
    /\ StatusesOf(mon.health_checks, component_of(BreakerName)) = {"unhealthy"}
    /\ get_system_health(mon, cb).status = "unhealthy"

\* C17: in every reachable state get_alerts() contains exactly one critical
\* alert for a registered breaker that is OPEN, exactly one warning for one
\* that is HALF_OPEN, and no critical alert for one that is CLOSED.
C17_OneAlertPerBreaker ==
    \A name \in Registered :
        LET alerts == get_alerts(mon, cb)
            c == component_of(name)
        IN  /\ cb.state = OPEN => Count(alerts, "critical", c) = 1
            /\ cb.state = HALF_OPEN => Count(alerts, "warning", c) = 1
            /\ cb.state = CLOSED => Count(alerts, "critical", c) = 0

\* What the code does there: the loop over the breakers contributes one
\* alert for an OPEN or HALF_OPEN breaker, next to whatever the health map
\* holds for the same component.
AlertsOfBreakerLoop ==
    \A name \in Registered :
        LET c == component_of(name)
            own == breaker_alerts(mon, cb)
        IN  /\ Count(own, "critical", c) = IF cb.state = OPEN THEN 1 ELSE 0
            /\ Count(own, "warning", c) = IF cb.state = HALF_OPEN THEN 1 ELSE 0

\* The status C19 gives for a breaker, from its state and its counters.
Expected(b) ==
    IF b.state = OPEN THEN "unhealthy"
    ELSE IF b.state = HALF_OPEN THEN "degraded"
    ELSE IF 10 * b.metrics.successful_calls < 8 * Max(1, b.metrics.total_calls)
    THEN "degraded"
    ELSE "healthy"

\* C19: check_circuit_breaker_health() leaves, for each registered breaker,
\* one entry "circuit_breaker_<name>" whose status is unhealthy for OPEN,
\* degraded for HALF_OPEN, and for CLOSED degraded below a success rate of
\* 0.80 and healthy from 0.80 on; the entries of the other components stay.
C19_BreakerHealthUpserted ==
    last.kind = "check" =>
        /\ \A name \in Registered :
               /\ StatusesOf(mon.health_checks, component_of(name)) = {Expected(cb)}
               /\ EntriesOf(mon.health_checks, component_of(name)) = 1
        /\ \A c \in Components \ {component_of(name) : name \in Registered} :
               /\ StatusesOf(mon.health_checks, c) = StatusesOf(last.pre.health_checks, c)
               /\ EntriesOf(mon.health_checks, c) <= 1

\* A CLOSED breaker with four successes in five calls, a rate of 0.80, is
\* filed as healthy, replacing an older entry.
C19_Witness ==
    /\ last.kind = "check"
    /\ Registered = {BreakerName}
    /\ cb.state = CLOSED
    /\ cb.metrics.total_calls = 5
    /\ cb.metrics.successful_calls = 4
    /\ StatusesOf(last.pre.health_checks, component_of(BreakerName)) = {"degraded"}
    /\ StatusesOf(mon.health_checks, component_of(BreakerName)) = {"healthy"}

\* A CLOSED breaker with three successes in four calls is filed as degraded.
C19_WitnessBelow ==
    /\ last.kind = "check"
    /\ Registered = {BreakerName}
    /\ cb.state = CLOSED
    /\ cb.metrics.total_calls = 4
    /\ cb.metrics.successful_calls = 3
    /\ StatusesOf(mon.health_checks, component_of(BreakerName)) = {"degraded"}

\* C38: after check_circuit_breaker_health() a registered breaker that is
\* CLOSED and has made no call has success_rate 0 and is filed as degraded,
\* and get_alerts() has a warning for it; the breaker is filed as healthy
\* only when it is CLOSED and at least 80% of its calls have succeeded.
C38_IdleBreakerDegraded ==
    (last.kind = "check" /\ BreakerName \in Registered) =>
        LET c == component_of(BreakerName)
            filed == StatusesOf(mon.health_checks, c)
        IN  /\ (cb.state = CLOSED /\ cb.metrics.total_calls = 0) =>
                  /\ get_metrics(cb).success_rate = Rat(0, 1)
                  /\ filed = {"degraded"}
                  /\ Count(get_alerts(mon, cb), "warning", c) = 1
                  /\ Count(get_alerts(mon, cb), "critical", c) = 0
            /\ filed = {"healthy"} =>
                  /\ cb.state = CLOSED
                  /\ cb.metrics.total_calls >= 1
                  /\ 5 * cb.metrics.successful_calls >= 4 * cb.metrics.total_calls

\* A breaker registered and checked before its first call.
C38_Witness ==
    /\ last.kind = "check"
    /\ Registered = {BreakerName}
    /\ cb = CircuitBreaker(cb.config)
    /\ StatusesOf(mon.health_checks, component_of(BreakerName)) = {"degraded"}
    /\ Count(get_alerts(mon, cb), "warning", component_of(BreakerName)) = 1

\* The first success makes it healthy.
C38_WitnessHealthy ==
    /\ last.kind = "check"
    /\ Registered = {BreakerName}
    /\ cb.metrics.total_calls = 1
    /\ StatusesOf(last.pre.health_checks, component_of(BreakerName)) = {"degraded"}
    /\ StatusesOf(mon.health_checks, component_of(BreakerName)) = {"healthy"}

----------------------------------------------------------------------------
(* The guarded call of the repositories: with_fallback over                *)
(* execute_with_retry over circuit_breaker.call over the fetch, invoked.   *)

\* The configurations of the repositories: two attempts, caching enabled,
\* and a cache key with every call.
GuardRetryConfig == {c \in ChainRetryConfig : c.max_attempts = 2}
GuardFallbackConfig == {c \in FallbackConfig : c.enabled}
GuardKey == "k1"

\* The functions of the repositories: the fetch returns the entity or raises;
\* the fallback returns a default entity or an empty list, or raises.
FetchOutcomes == {Return("v1")} \cup {Raise(e) : e \in Errors}
DefaultOutcomes == {Return("v2"), Return(EmptyList), Raise("ConnectionError")}

\* last is the invocation of the wrapper, as under SpecFallback; its primary
\* is the run of execute_with_retry.  attempts, fetches: iterations of the
\* loop and invocations of the fetch in this invocation; fetched: what the
\* fetch did when it was last invoked in it.
InitGuard ==
    /\ cb \in {CircuitBreaker(c) : c \in ChainBreakerConfig}
    /\ retry \in {RetryMechanism(c) : c \in GuardRetryConfig}
    /\ fb \in {FallbackHandler(c) : c \in GuardFallbackConfig}
    /\ now = 0
    /\ last = NoCall
    /\ ghost = [attempts |-> 0, fetches |-> 0, fetched |-> Pending]
    /\ threads = [t \in Threads |-> Idle]
    /\ repo = NoRepository
    /\ mon = NoMonitor

\* A caller invokes the wrapper: the primary is called, and enters
\* execute_with_retry.
InvokeGuard ==
    /\ last.kind \in {"none", "wrapper"}
    /\ last' = [kind |-> "primary", pre |-> fb, key |-> GuardKey,
                primary |-> Pending, fallback |-> Pending,
                t1 |-> None, t2 |-> None, result |-> Pending,
                fallbacks |-> 0, from |-> "primary"]
    /\ retry' = enter_retry(retry)
    /\ ghost' = [attempts |-> 0, fetches |-> 0, fetched |-> Pending]
    /\ UNCHANGED <<cb, now, fb, threads, repo, mon>>

\* One iteration of the loop of execute_with_retry, as in AttemptChain; when
\* it leaves the loop the primary has ended and the wrapper goes on with
\* lines 208-220.
AttemptGuard ==
    \E o \in FetchOutcomes :
        LET a == attempt(cb, now, o, now)
            r == iterate(retry, a.result, 0)
            w == after_primary(fb, last, r.result, now)
        IN  /\ last.kind = "primary"
            /\ retry.pc = "loop"
            /\ a.cb.metrics.total_calls <= MaxCalls
            /\ now + Slept(r) <= MaxTime
            /\ cb' = a.cb
            /\ retry' = r
            /\ now' = now + Slept(r)
            /\ IF r.pc = "done"
               THEN fb' = w.fb /\ last' = w.last
               ELSE UNCHANGED <<fb, last>>
            /\ ghost' = [attempts |-> ghost.attempts + 1,
                         fetches |-> ghost.fetches + a.invoked,
                         fetched |-> IF a.invoked = 1 THEN o ELSE ghost.fetched]
            /\ UNCHANGED <<threads, repo, mon>>

\* The fallback of the repository ends.
FallbackEndsGuard == FallbackEndsWith(DefaultOutcomes)

\* Time passes between two invocations.
TickGuard == last.kind \in {"none", "wrapper"} /\ TickChain

NextGuard == InvokeGuard \/ AttemptGuard \/ FallbackEndsGuard \/ TickGuard

SpecGuard == InitGuard /\ [][NextGuard]_vars

\* C20: an invocation of the guarded call ends with the operation's result,
\* with a fresh cached value, with the fallback's result or with the
\* fallback's error: an error of the primary path, CircuitBreakerOpenException
\* included, is never what the caller gets when it is an Exception, and no
\* value is returned that is none of the three.  (An error outside Exception
\* is not handled by any layer and passes through.)
C20_GuardedOutcomes ==
    Invoked =>
        /\ last.primary = retry.result
        /\ last.primary.kind = "return" =>
               /\ last.from = "primary"
               /\ ghost.fetches >= 1
               /\ last.result = ghost.fetched
               /\ last.fallbacks = 0
        /\ PrimaryFailed =>
               \/ /\ last.from = "cache"
                  /\ Fresh
                  /\ last.result = Return(last.pre.cache[last.key].data)
                  /\ last.fallbacks = 0
               \/ /\ last.from = "fallback"
                  /\ last.fallbacks = 1
                  /\ last.result = last.fallback
        /\ (last.primary.kind = "raise" /\ ~PrimaryFailed) =>
               /\ last.from = "uncaught"
               /\ last.primary.value \notin Exception
               /\ last.result = ghost.fetched
        /\ (PrimaryFailed /\ last.result.kind = "raise") =>
               /\ last.fallback.kind = "raise"
               /\ last.result = last.fallback

\* The breaker is OPEN, every attempt is rejected without a fetch, the
\* retries end with CircuitBreakerOpenException, and the caller gets the
\* fallback's result.
C20_Witness ==
    /\ Invoked
    /\ cb.state = OPEN
    /\ ghost.attempts = 2
    /\ ghost.fetches = 0
    /\ last.primary = Raise(CircuitBreakerOpenException)
    /\ last.from = "fallback"
    /\ last.fallback = Return("v2")
    /\ last.result = Return("v2")

\* The retries end with the fetch's error and the caller gets the value
\* cached by an earlier invocation.
C20_WitnessCache ==
    /\ Invoked
    /\ last.primary = Raise("ConnectionError")
    /\ ghost.fetches = 2
    /\ last.from = "cache"
    /\ last.result = Return("v1")

----------------------------------------------------------------------------
(* The repository: find_by_symbol and save, one call after another *)

\* last is the latest find_by_symbol: the symbol, whether the local cache had
\* it, the value returned, the breaker and the handler before the call and
\* how often the wrapper was invoked in it.
InitRepo ==
    /\ repo \in {YFinanceStockRepository(d) : d \in 1..MaxCacheDuration}
    /\ cb \in {CircuitBreaker(c) : c \in ChainBreakerConfig}
    /\ retry \in {RetryMechanism(c) : c \in GuardRetryConfig}
    /\ fb \in {FallbackHandler(c) : c \in GuardFallbackConfig}
    /\ now = 0
    /\ last = NoCall
    /\ ghost = [failRun |-> 0, probeSucc |-> 0]
    /\ threads = [t \in Threads |-> Idle]
    /\ mon = NoMonitor

\* A caller runs find_by_symbol(symbol).
FindBySymbol ==
    /\ \E symbol \in Symbols :
           LET f == find_by_symbol(repo, fb, symbol, now)
           IN  /\ repo' = f.repo
               /\ fb' = f.fb
               /\ last' = [kind |-> "find", symbol |-> symbol, hit |-> f.hit,
                           result |-> f.result, cb |-> cb, fb |-> fb,
                           invocations |-> f.invocations]
    /\ UNCHANGED <<cb, now, ghost, threads, retry, mon>>

\* A caller runs save(stock).
Save ==
    /\ \E symbol \in Symbols, stock \in Values :
           repo' = cache_stock(repo, symbol, stock, now)
    /\ UNCHANGED <<cb, now, last, ghost, threads, retry, fb, mon>>

NextRepo == FindBySymbol \/ Save \/ Tick

SpecRepo == InitRepo /\ [][NextRepo]_vars

\* C21: a find_by_symbol that misses the local cache runs the chain: the
\* wrapper is invoked once, and what the caller gets is an outcome of the
\* chain (a result of the fetch, of the cache or of the fallback, or None
\* after an error), not the wrapper itself.
C21_ChainRuns ==
    (last.kind = "find" /\ ~last.hit) =>
        /\ last.invocations = 1
        /\ last.result \in Results

\* What the code does there: the breaker and the handler are as before the
\* call and the caller gets the wrapper.
ChainNeverRuns ==
    (last.kind = "find" /\ ~last.hit) =>
        /\ cb = last.cb
        /\ fb = last.fb
        /\ cb.metrics.total_calls = 0
        /\ last.result = WrapperFunction

----------------------------------------------------------------------------
(* Several callers inside MonitoringService at once.  record_request takes *)
(* no lock, so each read and each write of a field of system_metrics is a  *)
(* step of its own; update_health_status is one dict assignment.           *)

\* A caller that is not inside record_request; success and response_time are
\* its arguments, the rest its temporaries.
IdleRequest ==
    [pc |-> "idle", reg |-> 0, success |-> TRUE, response_time |-> 0,
     average |-> Rat(0, 1), n1 |-> 0, n2 |-> 0]

\* Caller t moves from label from to label to as th, leaving the service as m.
MonGoto(t, from, to, th, m) ==
    /\ threads[t].pc = from
    /\ threads' = [threads EXCEPT ![t] = [th EXCEPT !.pc = to]]
    /\ mon' = m
    /\ UNCHANGED <<cb, now, last, ghost, repo, retry, fb>>

\* Caller t reads field f of system_metrics into its register.
MonLoad(t, from, to, f) ==
    MonGoto(t, from, to, [threads[t] EXCEPT !.reg = mon.system_metrics[f]], mon)

\* Caller t writes its register plus one to field f of system_metrics.
MonStoreInc(t, from, to, f) ==
    MonGoto(t, from, to, threads[t],
            [mon EXCEPT !.system_metrics[f] = threads[t].reg + 1])

InitMonConc ==
    /\ mon = MonitoringService
    /\ ghost = [calls |-> 0, ok |-> 0, sum |-> 0]
    /\ threads = [t \in Threads |-> IdleRequest]
    /\ now = 0
    /\ last = NoCall
    /\ cb = NoBreaker
    /\ retry = NoRetry
    /\ fb = NoFallback
    /\ repo = NoRepository

\* A caller enters record_request(success, response_time).
EnterRecord(t) ==
    /\ threads[t].pc = "idle"
    /\ ghost.calls < MaxCalls
    /\ \E success \in BOOLEAN, response_time \in 0..MaxResponseTime :
           /\ threads' = [threads EXCEPT ![t] =
                             [IdleRequest EXCEPT !.pc = "m51r",
                                                 !.success = success,
                                                 !.response_time = response_time]]
           /\ ghost' = [calls |-> ghost.calls + 1,
                        ok |-> IF success THEN ghost.ok + 1 ELSE ghost.ok,
                        sum |-> ghost.sum + response_time]
    /\ UNCHANGED <<cb, now, last, mon, repo, retry, fb>>

\* line 51: self.system_metrics.total_requests += 1
M51r(t) == MonLoad(t, "m51r", "m51w", "total_requests")
M51w(t) == MonStoreInc(t, "m51w", "m52", "total_requests")

\* line 52: if success
M52(t) ==
    \/ threads[t].success /\ MonGoto(t, "m52", "m53r", threads[t], mon)
    \/ ~threads[t].success /\ MonGoto(t, "m52", "m55r", threads[t], mon)

\* line 53: self.system_metrics.successful_requests += 1
M53r(t) == MonLoad(t, "m53r", "m53w", "successful_requests")
M53w(t) == MonStoreInc(t, "m53w", "m58", "successful_requests")

\* line 55: self.system_metrics.failed_requests += 1
M55r(t) == MonLoad(t, "m55r", "m55w", "failed_requests")
M55w(t) == MonStoreInc(t, "m55w", "m58", "failed_requests")

\* line 58: if self.system_metrics.total_requests == 1
M58(t) ==
    \/ /\ mon.system_metrics.total_requests = 1
       /\ MonGoto(t, "m58", "m59", threads[t], mon)
    \/ /\ mon.system_metrics.total_requests # 1
       /\ MonGoto(t, "m58", "m62a", threads[t], mon)

\* line 59: self.system_metrics.average_response_time = response_time
M59(t) ==
    MonGoto(t, "m59", "idle", IdleRequest,
            [mon EXCEPT !.system_metrics.average_response_time =
                            Rat(threads[t].response_time, 1)])

\* line 62: the reads of average_response_time and of total_requests
M62a(t) ==
    MonGoto(t, "m62a", "m62n",
            [threads[t] EXCEPT !.average = mon.system_metrics.average_response_time],
            mon)
M62n(t) ==
    MonGoto(t, "m62n", "m64r",
            [threads[t] EXCEPT !.n1 = mon.system_metrics.total_requests], mon)

\* line 64: the read of total_requests, then line 61: the write of the average
M64r(t) ==
    MonGoto(t, "m64r", "m61w",
            [threads[t] EXCEPT !.n2 = mon.system_metrics.total_requests], mon)
M61w(t) ==
    LET th == threads[t]
        a == th.average
    IN  MonGoto(t, "m61w", "idle", IdleRequest,
                [mon EXCEPT !.system_metrics.average_response_time =
                    Rat(a.num * (th.n1 - 1) + th.response_time * a.den,
                        a.den * th.n2)])

\* update_health_status, lines 68-74: one assignment to the dict.
UpdateHealthStatusConc(t) ==
    /\ threads[t].pc = "idle"
    /\ \E c \in ServiceComponents, status \in Statuses :
           mon' = update_health_status(mon, c, status)
    /\ UNCHANGED <<cb, now, last, ghost, threads, repo, retry, fb>>

NextMonConc ==
    \E t \in Threads :
        \/ EnterRecord(t) \/ M51r(t) \/ M51w(t) \/ M52(t)
        \/ M53r(t) \/ M53w(t) \/ M55r(t) \/ M55w(t)
        \/ M58(t) \/ M59(t) \/ M62a(t) \/ M62n(t) \/ M64r(t) \/ M61w(t)
        \/ UpdateHealthStatusConc(t)

SpecMonConc == InitMonConc /\ [][NextMonConc]_vars

\* C22: once every concurrent record_request has completed, total_requests is
\* the number of calls, it is the sum of successful_requests and
\* failed_requests, which count the calls of each kind, and
\* average_response_time is the mean of the response times recorded.
C22_RequestsSerialized ==
    LET sm == mon.system_metrics
    IN  AllIdle =>
           /\ sm.total_requests = ghost.calls
           /\ sm.total_requests = sm.successful_requests + sm.failed_requests
           /\ sm.successful_requests = ghost.ok
           /\ ghost.calls > 0 =>
                  sm.average_response_time = Rat(ghost.sum, ghost.calls)

\* The part that holds without a lock: each update_health_status leaves one
\* entry per component.
C22_HealthEntriesUnique ==
    \A c \in Components : EntriesOf(mon.health_checks, c) <= 1

----------------------------------------------------------------------------
(* The breaker beside the state machine of the design: CLOSED, OPEN and    *)
(* HALF_OPEN with the events success, failure and recovery timeout elapsed *)

\* The transitions of the design.
Transitions ==
    {<<CLOSED, OPEN>>, <<OPEN, HALF_OPEN>>, <<HALF_OPEN, CLOSED>>,
     <<HALF_OPEN, OPEN>>}

Edge(a, b) == a = b \/ <<a, b>> \in Transitions

\* The reference machine: its state, the failures in a row, the successes
\* since the latest failure, and the time of the latest failure.
Reference == [state |-> CLOSED, failures |-> 0, successes |-> 0, failed_at |-> None]

\* A call is attempted at time t.
RefElapsed(r, c, t) ==
    IF r.state = OPEN /\ t - r.failed_at >= c.recovery_timeout
    THEN [r EXCEPT !.state = HALF_OPEN]
    ELSE r

RefSuccess(r, c) ==
    [r EXCEPT !.failures = 0,
              !.successes = @ + 1,
              !.state = IF @ = HALF_OPEN /\ r.successes + 1 >= c.success_threshold
                        THEN CLOSED ELSE @]

RefFailure(r, c, t) ==
    [r EXCEPT !.failures = @ + 1,
              !.successes = 0,
              !.failed_at = t,
              !.state = IF @ = HALF_OPEN THEN OPEN
                        ELSE IF @ = CLOSED /\ r.failures + 1 >= c.failure_threshold
                        THEN OPEN ELSE @]

\* The reference machine after a call entered at t0 whose operation, if the
\* machine lets it run, has outcome o at t1.
RefAfter(r, c, t0, o, t1) ==
    LET r1 == RefElapsed(r, c, t0)
    IN  IF r1.state = OPEN THEN r1
        ELSE IF o.kind = "return" THEN RefSuccess(r1, c)
        ELSE IF o.value \in c.expected_exception THEN RefFailure(r1, c, t1)
        ELSE r1

\* ghost: the reference machine, the counted failures in a row up to now
\* (failRun), the longest such run (maxRun) and their number (failures).
InitRef ==
    /\ cb \in {CircuitBreaker(c) : c \in CircuitBreakerConfig}
    /\ now = 0
    /\ last = NoCall
    /\ ghost = [ref |-> Reference, failRun |-> 0, maxRun |-> 0, failures |-> 0]
    /\ threads = [t \in Threads |-> Idle]
    /\ repo = NoRepository
    /\ fb = NoFallback
    /\ mon = NoMonitor
    /\ retry = NoRetry

\* A caller runs circuit_breaker.call(func), as in Call.
CallRef ==
    \E o \in Outcomes, d \in 0..MaxOpTime :
        LET g == gate(cb, now)
            t1 == IF g.admit THEN now + d ELSE now
            r == call(cb, now, o, t1)
            run == IF r.invoked = 0 THEN ghost.failRun
                   ELSE IF o.kind = "return" THEN 0
                   ELSE IF Counted(cb, o) THEN ghost.failRun + 1
                   ELSE ghost.failRun
        IN  /\ t1 <= MaxTime
            /\ g.admit => cb.metrics.total_calls < MaxCalls
            /\ cb' = r.cb
            /\ now' = t1
            /\ last' = [kind |-> "call", pre |-> cb, t0 |-> now, t1 |-> t1,
                        outcome |-> o, during |-> g.cb.state,
                        result |-> r.result, invoked |-> r.invoked]
            /\ ghost' = [ref |-> RefAfter(ghost.ref, cb.config, now, o, t1),
                         failRun |-> run,
                         maxRun |-> Max(ghost.maxRun, run),
                         failures |-> IF run > ghost.failRun
                                      THEN ghost.failures + 1 ELSE ghost.failures]
            /\ UNCHANGED <<threads, notBreaker>>

\* A caller runs circuit_breaker.get_metrics().
GetMetrics ==
    /\ last' = [kind |-> "metrics", pre |-> cb, snapshot |-> get_metrics(cb)]
    /\ UNCHANGED <<cb, now, ghost, threads, notBreaker>>

NextRef == CallRef \/ GetMetrics \/ Tick

SpecRef == InitRef /\ [][NextRef]_vars

\* C23: the breaker starts CLOSED with its counters at zero; after every call
\* its state is the state of the reference machine fed the same events; and
\* within a call the state moves only along the transitions of the design:
\* from OPEN to HALF_OPEN on entry, then from there to CLOSED or OPEN, or
\* from CLOSED to OPEN (never CLOSED to HALF_OPEN, never OPEN to CLOSED).
C23_FollowsReference ==
    /\ last.kind = "none" =>
          cb.state = CLOSED /\ cb.metrics = CircuitBreakerMetrics
    /\ cb.state = ghost.ref.state
    /\ last.kind = "call" =>
          /\ Edge(last.pre.state, last.during)
          /\ Edge(last.during, cb.state)
          /\ <<last.pre.state, last.during>> \in
                 {<<CLOSED, CLOSED>>, <<OPEN, OPEN>>, <<OPEN, HALF_OPEN>>,
                  <<HALF_OPEN, HALF_OPEN>>}

\* An OPEN breaker probes and closes within one call: by way of HALF_OPEN.
C23_Witness ==
    /\ Success
    /\ last.pre.state = OPEN
    /\ last.during = HALF_OPEN
    /\ cb.state = CLOSED
    /\ ghost.ref.state = CLOSED

\* C24: a success on a CLOSED breaker leaves it CLOSED with
\* consecutive_failures = 0, and a breaker that has seen no run of
\* failure_threshold counted failures in a row is CLOSED, however many
\* failures it has seen.
C24_ShortRunsStayClosed ==
    /\ (Success /\ last.during = CLOSED) =>
          cb.state = CLOSED /\ cb.metrics.consecutive_failures = 0
    /\ ghost.maxRun < cb.config.failure_threshold => cb.state = CLOSED

\* failure_threshold failures in all, none of them in a row.
C24_Witness ==
    /\ ghost.failures >= cb.config.failure_threshold
    /\ ghost.maxRun < cb.config.failure_threshold
    /\ cb.metrics.failed_calls = ghost.failures
    /\ cb.state = CLOSED

\* C27: get_metrics() leaves the breaker as it was, and its snapshot holds the
\* breaker's state and metrics, with success_rate the quotient
\* successful_calls / max(1, total_calls), which is within [0, 1] and is 0
\* before the first call.
C27_MetricsPureRead ==
    last.kind = "metrics" =>
        LET s == last.snapshot
            m == cb.metrics
        IN  /\ cb = last.pre
            /\ s.state = cb.state
            /\ s.total_calls = m.total_calls
            /\ s.successful_calls = m.successful_calls
            /\ s.failed_calls = m.failed_calls
            /\ s.consecutive_failures = m.consecutive_failures
            /\ s.last_failure_time = m.last_failure_time
            /\ s.last_success_time = m.last_success_time
            /\ s.success_rate = Rat(m.successful_calls, Max(1, m.total_calls))
            /\ ~Less(s.success_rate, Rat(0, 1))
            /\ ~Less(Rat(1, 1), s.success_rate)
            /\ m.total_calls = 0 => s.success_rate = Rat(0, 1)

C27_Witness ==
    /\ last.kind = "metrics"
    /\ last.snapshot.total_calls = 3
    /\ last.snapshot.success_rate = [num |-> 2, den |-> 3]

C27_WitnessNoCall ==
    /\ last.kind = "metrics"
    /\ last.snapshot.total_calls = 0
    /\ last.snapshot.success_rate = [num |-> 0, den |-> 1]

----------------------------------------------------------------------------
(* MonitoringService: all its operations, one after another, with the      *)
(* breaker it watches.  The clock stands still.                            *)

\* last names the latest operation; status is the "status" get_system_health
\* returned, if that was the operation.
Op(kind) == [kind |-> kind, status |-> "none"]

\* The breaker the service watches lets a probe through at once and closes
\* on its success; every request recorded took one clock unit.
ServiceBreakerConfig ==
    {c \in ChainBreakerConfig : c.recovery_timeout = 0 /\ c.success_threshold = 1}

ServiceResponseTimes == {1}

InitService ==
    /\ mon = MonitoringService
    /\ cb \in {CircuitBreaker(c) : c \in ServiceBreakerConfig}
    /\ now = 0
    /\ last = Op("none")
    /\ ghost = [failRun |-> 0, probeSucc |-> 0]
    /\ retry = NoRetry
    /\ fb = NoFallback
    /\ threads = [t \in Threads |-> Idle]
    /\ repo = NoRepository

ServiceRecordRequest ==
    /\ mon.system_metrics.total_requests < MaxServiceRequests
    /\ \E success \in BOOLEAN, response_time \in ServiceResponseTimes :
           mon' = record_request(mon, success, response_time)
    /\ last' = Op("record")
    /\ UNCHANGED <<cb, now, ghost, threads, repo, retry, fb>>

ServiceRegister ==
    /\ mon.circuit_breakers = <<>>
    /\ mon' = register_circuit_breaker(mon, BreakerName)
    /\ last' = Op("register")
    /\ UNCHANGED <<cb, now, ghost, threads, repo, retry, fb>>

\* A caller runs circuit_breaker.call(func); func has outcome o.
ServiceCall ==
    /\ \E o \in Outcomes :
           LET g == gate(cb, now)
           IN  /\ g.admit => cb.metrics.total_calls < MaxCalls
               /\ cb' = call(cb, now, o, now).cb
    /\ last' = Op("call")
    /\ UNCHANGED <<mon, now, ghost, threads, repo, retry, fb>>

ServiceUpdateHealth ==
    /\ \E c \in ServiceComponents, status \in Statuses :
           mon' = update_health_status(mon, c, status)
    /\ last' = Op("update")
    /\ UNCHANGED <<cb, now, ghost, threads, repo, retry, fb>>

ServiceCheckHealth ==
    /\ mon' = check_circuit_breaker_health(mon, cb)
    /\ last' = Op("check")
    /\ UNCHANGED <<cb, now, ghost, threads, repo, retry, fb>>

\* get_system_health(): it builds a dict and writes nothing.
GetSystemHealth ==
    /\ last' = [kind |-> "health", status |-> get_system_health(mon, cb).status]
    /\ UNCHANGED <<mon, cb, now, ghost, threads, repo, retry, fb>>

\* get_alerts(): it builds a list and writes nothing.
GetAlerts ==
    /\ last' = Op("alerts")
    /\ UNCHANGED <<mon, cb, now, ghost, threads, repo, retry, fb>>

NextService ==
    \/ ServiceRecordRequest \/ ServiceRegister \/ ServiceCall
    \/ ServiceUpdateHealth \/ ServiceCheckHealth \/ GetSystemHealth \/ GetAlerts

SpecService == InitService /\ [][NextService]_vars

\* What a step does to the request counters: none decreases, they change in
\* a record_request only, which adds one to total_requests, and
\* total_requests is the sum of the other two.
CountersKept ==
    LET a == mon.system_metrics
        b == mon'.system_metrics
    IN  /\ b.total_requests >= a.total_requests
        /\ b.successful_requests >= a.successful_requests
        /\ b.failed_requests >= a.failed_requests
        /\ b # a => last'.kind = "record"
        /\ last'.kind = "record" => b.total_requests = a.total_requests + 1
        /\ b.total_requests = b.successful_requests + b.failed_requests

\* C31: over every sequence of operations of the service, total_requests =
\* successful_requests + failed_requests, no counter decreases, and only
\* record_request changes them.
C31_CountersOnlyByRecord == [][CountersKept]_vars

\* A success and a failure recorded, the breaker registered and checked.
C31_Witness ==
    /\ last.kind = "check"
    /\ mon.system_metrics.total_requests = 2
    /\ mon.system_metrics.successful_requests = 1
    /\ mon.system_metrics.failed_requests = 1
    /\ Len(mon.health_checks) = 2

\* The status get_system_health derives from a health map.
StatusOfMap(hc) ==
    LET statuses == {hc[i].status : i \in 1..Len(hc)}
    IN  IF "unhealthy" \in statuses THEN "unhealthy"
        ELSE IF "degraded" \in statuses THEN "degraded"
        ELSE "healthy"

\* What a step of the three reading operations leaves alone.
ReadsKeep ==
    /\ last'.kind \in {"health", "alerts", "check"} => cb' = cb
    /\ last'.kind \in {"health", "alerts"} =>
          /\ mon'.health_checks = mon.health_checks
          /\ mon' = mon
    /\ last'.kind = "health" =>
          /\ last'.status = StatusOfMap(mon.health_checks)
          /\ (cb.state = OPEN /\ StatusOfMap(mon.health_checks) # "unhealthy") =>
                 last'.status # "unhealthy"

\* C39: get_system_health, get_alerts and check_circuit_breaker_health leave
\* the breaker as it is, the first two leave the health map as it is, and the
\* status get_system_health reports is that of the health map, whatever the
\* breaker's state is by then.
C39_ReadsLeaveBreaker == [][ReadsKeep]_vars

\* The breaker was filed as healthy, opened after that, and the status
\* reported is healthy.
C39_Witness ==
    /\ last.kind = "health"
    /\ cb.state = OPEN
    /\ mon.circuit_breakers = <<BreakerName>>
    /\ StatusesOf(mon.health_checks, component_of(BreakerName)) = {"healthy"}
    /\ last.status = "healthy"

----------------------------------------------------------------------------
(* A dependency that recovers: calls through the breaker whose operation    *)
(* may fail, and from some point on (healed) only succeeds.  A call takes  *)
(* no time; the clock moves between calls.                                 *)

InitRecover ==
    /\ cb \in {CircuitBreaker(c) : c \in CircuitBreakerConfig}
    /\ now = 0
    /\ last = NoCall
    /\ ghost = [healed |-> FALSE]
    /\ threads = [t \in Threads |-> Idle]
    /\ repo = NoRepository
    /\ fb = NoFallback
    /\ mon = NoMonitor
    /\ retry = NoRetry

\* A call while the operation may still fail.
UnhealedCall ==
    /\ ~ghost.healed
    /\ cb.metrics.total_calls < MaxCalls
    /\ \E o \in Outcomes : cb' = call(cb, now, o, now).cb
    /\ UNCHANGED <<now, last, ghost, threads, notBreaker>>

\* From here on the operation succeeds.
Heal ==
    /\ ~ghost.healed
    /\ ghost' = [healed |-> TRUE]
    /\ UNCHANGED <<cb, now, last, threads, notBreaker>>

\* A call whose operation, if invoked, returns.  Calls go on at least until
\* the breaker is CLOSED.
HealedCall ==
    /\ ghost.healed
    /\ cb.state # CLOSED \/ cb.metrics.total_calls < MaxCalls + MaxThreshold
    /\ \E v \in Values : cb' = call(cb, now, Return(v), now).cb
    /\ UNCHANGED <<now, last, ghost, threads, notBreaker>>

\* Time passes, at least until the recovery timeout of an OPEN breaker is over.
TickRecover ==
    /\ now < MaxTime \/ (cb.state = OPEN /\ ~should_attempt_reset(cb, now))
    /\ now' = now + 1
    /\ UNCHANGED <<cb, last, ghost, threads, notBreaker>>

NextRecover == UnhealedCall \/ Heal \/ HealedCall \/ TickRecover

\* Calls keep arriving and time keeps advancing.
SpecRecover ==
    InitRecover /\ [][NextRecover]_vars /\ WF_vars(HealedCall) /\ WF_vars(TickRecover)

\* C33: once every invocation of the operation succeeds, with calls arriving
\* and time advancing, the breaker, if OPEN or HALF_OPEN, becomes CLOSED, and
\* it is CLOSED from then on.
C33_RecoversAndStaysClosed == ghost.healed ~> [](cb.state = CLOSED)

\* Healed while OPEN with the timeout still running.
C33_Witness ==
    /\ ghost.healed
    /\ cb.state = OPEN
    /\ ~should_attempt_reset(cb, now)
    /\ cb.config.success_threshold = 2

\* Closed again after the probes.
C33_WitnessClosed ==
    /\ ghost.healed
    /\ cb.state = CLOSED
    /\ cb.metrics.failed_calls >= cb.config.failure_threshold
    /\ cb.metrics.successful_calls >= 2
    /\ cb.config.success_threshold = 2

----------------------------------------------------------------------------
(* A function decorated with resilient_api_call, invoked again and again.  *)
(* The invocation takes the time of the sleeps of execute_with_retry.      *)

NoInvocation ==
    [kind |-> "none", pre |-> NoBreaker, t0 |-> 0, result |-> Pending,
     invocations |-> 0, calls |-> 0]

\* The breakers of the decorated function close at the first success of a
\* probe.
DecoratedBreakerConfig ==
    {c \in ChainBreakerConfig : c.success_threshold = 1}

\* What func does in one invocation: it returns, or raises an error that is
\* counted and retried, or one that is neither.
DecoratedOutcomes ==
    {Return("v1"), Raise("ConnectionError"), Raise("KeyboardInterrupt")}

InitDecorated ==
    /\ cb \in {CircuitBreaker(c) : c \in DecoratedBreakerConfig}
    /\ retry \in {RetryMechanism(c) : c \in ChainRetryConfig}
    /\ now = 0
    /\ last = NoInvocation
    /\ ghost = [attempts |-> 0]
    /\ threads = [t \in Threads |-> Idle]
    /\ repo = NoRepository
    /\ fb = NoFallback
    /\ mon = NoMonitor

\* protected_func(): func does os[1], os[2], ... in its invocations.
InvokeDecorated ==
    \E os \in [1..retry.config.max_attempts -> DecoratedOutcomes] :
        LET x == resilient_api_call(cb, retry, now, os)
        IN  /\ cb.metrics.total_calls < MaxCalls
            /\ x.t1 <= MaxTime
            /\ cb' = x.cb
            /\ retry' = x.retry
            /\ now' = x.t1
            /\ last' = [kind |-> "call", pre |-> cb, t0 |-> now,
                        result |-> x.result, invocations |-> x.invocations,
                        calls |-> x.calls]
            /\ UNCHANGED <<ghost, notChain>>

\* Time passes between two invocations.
TickDecorated ==
    /\ now < MaxTime
    /\ now' = now + 1
    /\ UNCHANGED <<cb, retry, last, ghost, notChain>>

NextDecorated == InvokeDecorated \/ TickDecorated

SpecDecorated == InitDecorated /\ [][NextDecorated]_vars

\* What the latest invocation added to a counter of the breaker.
Added(f) == cb.metrics[f] - last.pre.metrics[f]

\* The latest invocation found the breaker OPEN with its timeout running.
InvocationWhileOpen ==
    /\ last.kind = "call"
    /\ last.pre.state = OPEN
    /\ ~should_attempt_reset(last.pre, last.t0)

\* C36: one invocation of a function decorated with resilient_api_call is
\* one CircuitBreaker.call around the whole of execute_with_retry: however
\* many attempts are made inside, total_calls goes up by 1 and at most one
\* success or one failure is recorded, the success exactly when the
\* invocation returns; an invocation that finds the breaker OPEN with its
\* timeout running is rejected before any attempt and changes nothing.
C36_OneBreakerCallPerInvocation ==
    last.kind = "call" =>
        /\ last.calls = 1
        /\ IF InvocationWhileOpen
           THEN /\ last.invocations = 0
                /\ last.result = Raise(CircuitBreakerOpenException)
                /\ cb = last.pre
           ELSE /\ last.invocations \in 1..retry.config.max_attempts
                /\ Added("total_calls") = 1
                /\ Added("successful_calls") \in {0, 1}
                /\ Added("failed_calls") \in {0, 1}
                /\ Added("successful_calls") + Added("failed_calls") <= 1
                /\ Added("successful_calls") = 1 <=> last.result.kind = "return"
                /\ Added("failed_calls") = 1 <=>
                      /\ last.result.kind = "raise"
                      /\ last.result.value \in cb.config.expected_exception

\* Three attempts, all failing, are one failed call of the breaker.
C36_Witness ==
    /\ last.kind = "call"
    /\ last.invocations = 3
    /\ last.result = Raise("ConnectionError")
    /\ Added("total_calls") = 1
    /\ Added("failed_calls") = 1
    /\ cb.metrics.consecutive_failures = 1

\* Two failed attempts and a third that returns are one successful call.
C36_WitnessRetried ==
    /\ last.kind = "call"
    /\ last.invocations = 3
    /\ last.result.kind = "return"
    /\ Added("total_calls") = 1
    /\ Added("successful_calls") = 1
    /\ Added("failed_calls") = 0

\* An invocation rejected by the OPEN breaker.
C36_WitnessRejected ==
    /\ InvocationWhileOpen
    /\ last.invocations = 0
    /\ retry.config.max_attempts = 3

----------------------------------------------------------------------------
(* Two FallbackHandler instances, such as default_fallback and the handler  *)
(* of a repository, each with its own configuration; wrappers are invoked   *)
(* through either.  fb maps the instance to its handler.                    *)

Handlers == {"default_fallback", "fallback_handler"}

\* What the primary and the fallback function of these wrappers do.
HandlerPrimaryOutcomes ==
    {Return("v1"), Raise("ConnectionError"), Raise("KeyboardInterrupt")}
HandlerFallbackOutcomes == {Return("v2"), Raise("ConnectionError")}

\* The cache_key of these wrappers: none, or the one key they share.
HandlerKeys == {NoKey, "k1"}

NoWrapper ==
    [kind |-> "none", handler |-> "default_fallback", key |-> NoKey,
     primary |-> Pending, fallbacks |-> 0, from |-> "primary"]

InitHandlers ==
    /\ fb \in [Handlers -> {FallbackHandler(c) : c \in FallbackConfig}]
    /\ now = 0
    /\ last = NoWrapper
    /\ ghost = [attempts |-> 0]
    /\ cb = NoBreaker
    /\ retry = NoRetry
    /\ threads = [t \in Threads |-> Idle]
    /\ repo = NoRepository
    /\ mon = NoMonitor

\* A caller runs self.with_fallback(primary, fallback, key)() with self the
\* instance i.
InvokeThrough ==
    \E i \in Handlers, key \in HandlerKeys,
       p \in HandlerPrimaryOutcomes, f \in HandlerFallbackOutcomes :
        LET w == wrapper(fb[i], key, p, f, now)
        IN  /\ fb' = [fb EXCEPT ![i] = w.fb]
            /\ last' = [kind |-> "wrapper", handler |-> i, key |-> key,
                        primary |-> p, fallbacks |-> w.fallbacks,
                        from |-> w.from]
            /\ UNCHANGED <<now, cb, ghost, threads, repo, retry, mon>>

NextHandlers == InvokeThrough \/ Tick

SpecHandlers == InitHandlers /\ [][NextHandlers]_vars

\* The invocation this step ends with had no cache_key, or went through a
\* handler whose configuration is not enabled.
NotCaching == last'.key = NoKey \/ ~fb[last'.handler].config.enabled

\* The primary of that invocation raised an error `except Exception` catches.
PrimaryRaised ==
    /\ last'.kind = "wrapper"
    /\ last'.primary.kind = "raise"
    /\ last'.primary.value \in Exception

HandlersFrame ==
    /\ \A i \in Handlers :
          (i # last'.handler \/ NotCaching) => fb'[i] = fb[i]
    /\ (PrimaryRaised /\ NotCaching) =>
          last'.fallbacks = 1 /\ last'.from = "fallback"

\* C37: an invocation without a cache_key, or through a handler that is not
\* enabled, leaves that handler's cache as it was, entries past their ttl
\* included, and invokes the fallback whenever the primary raised; and an
\* invocation through one FallbackHandler leaves every other instance as
\* it was.
C37_CacheUntouchedWhenNotCaching == [][HandlersFrame]_vars

\* The primary failed in an invocation without a cache_key while the key's
\* entry was past its ttl: the fallback ran and the entry is still there.
C37_Witness ==
    /\ last.kind = "wrapper"
    /\ last.key = NoKey
    /\ last.primary = Raise("ConnectionError")
    /\ last.fallbacks = 1
    /\ fb[last.handler].config.enabled
    /\ fb[last.handler].cache["k1"] # Absent
    /\ now - fb[last.handler].cache["k1"].timestamp
          > fb[last.handler].config.cache_ttl

\* The primary failed in an invocation with a key through a handler that is
\* not enabled, while the other handler holds an entry for the key.
C37_WitnessDisabled ==
    /\ last.kind = "wrapper"
    /\ last.key = "k1"
    /\ last.primary = Raise("ConnectionError")
    /\ last.fallbacks = 1
    /\ ~fb[last.handler].config.enabled
    /\ fb[last.handler].cache["k1"] = Absent
    /\ \E i \in Handlers \ {last.handler} : fb[i].cache["k1"] # Absent

====
